---- MODULE Spec2Model ----
(***************************************************************************)
(* A model of soundplay: the dual-domain Sound wrapper (studio/sound.py),  *)
(* harmonic decomposition and join (tools/decompose.py, tools/join.py) and *)
(* the .spx codec (core/spectral.py).                                      *)
(***************************************************************************)
EXTENDS Integers, Sequences, FiniteSets, TLC

VARIABLES
    sounds,     \* the Sound instances created so far, by identity (index)
    fwd,        \* per instance: compute_stft calls made on its behalf
    inv,        \* per instance: compute_istft calls made on its behalf
    last,       \* the last call made on a wrapper: what it was and what it did
    dpc,        \* decompose: where the run is
    din,        \* decompose: the input frame and the options of the run
    fundamentals, \* decompose: the accepted fundamentals, <<hz, bin>>, ascending
    claimed,    \* decompose: bins assigned to any component so far
    masks,      \* decompose: the mask each component was cut with, in order
    results,    \* decompose: the frames produced so far (components, remainder)
    joined,     \* decompose: what join returns for the written files
    cpc,        \* codec: where the writer or the reader is
    via,        \* codec: "file" (save, load), "pipe" (write_pipe, read_pipe), "raw"
    cframe,     \* codec: the frame handed to the writer
    stream,     \* codec: the bytes of the file or pipe
    flushed,    \* codec: the writer has flushed (or closed) the stream
    pos,        \* codec: the reader's position in the stream
    hlen,       \* codec: the header length the reader unpacked
    header,     \* codec: the header the reader parsed
    interpreted, \* codec: body bytes the reader has handed to np.frombuffer
    decoded,    \* codec: the frame the reader returned
    cerr,       \* codec: the error the reader raised, "" for none
    jpc,        \* join: where main is
    jin,        \* join: the frames in the input files, in command-line order
    strict,     \* join: the --strict / --no-strict flag
    parts,      \* join: the frames loaded so far
    jerr,       \* join: the error raised
    summed,     \* join: how many inputs have been added into acc
    jsum,       \* join: what _join returned
    jout,       \* join: the bytes written to the output
    tpc,        \* operator call: "call", then "done" or "failed"
    tin,        \* operator call: the operator, the entry point and the arguments
    tout,       \* operator call: what the call returned
    terr,       \* operator call: the error the call raised, "" for none
    trange      \* operator call: the frame range denoise took its noise profile from

svars == <<sounds, fwd, inv, last>>
dvars == <<dpc, din, fundamentals, claimed, masks, results, joined>>
cvars == <<cpc, via, cframe, stream, flushed, pos, hlen, header, interpreted, decoded, cerr>>
jvars == <<jpc, jin, strict, parts, jerr, summed, jsum, jout>>
tvars == <<tpc, tin, tout, terr, trange>>
vars == <<sounds, fwd, inv, last, dpc, din, fundamentals, claimed, masks, results, joined,
          cpc, via, cframe, stream, flushed, pos, hlen, header, interpreted, decoded, cerr,
          jpc, jin, strict, parts, jerr, summed, jsum, jout,
          tpc, tin, tout, terr, trange>>

\* ------------------------------------------------------------------------
\* Bounds
\* ------------------------------------------------------------------------
MaxSounds == 2
MaxNotes == 2
MaxHarmonics == 2
MaxInputs == 3

\* ------------------------------------------------------------------------
\* core/spectral.py: SpectralData.  The tensor is a shape (channels, frames,
\* bins) over a row-major buffer of complex values <<real, imag>>.
\* ------------------------------------------------------------------------
Tensor(shape, data) == [shape |-> shape, data |-> data]

\* The element at 0-based (c, f, b).
At(t, c, f, b) == t.data[(c * t.shape[2] + f) * t.shape[3] + b + 1]

Size(shape) == shape[1] * shape[2] * shape[3]

SpectralData(stft, sample_rate, n_fft, hop_length, window, original_frames) ==
    [stft |-> stft, sample_rate |-> sample_rate, n_fft |-> n_fft,
     hop_length |-> hop_length, window |-> window,
     original_frames |-> original_frames]

channels(sd) == sd.stft.shape[1]

frames(sd) == sd.stft.shape[2]

bins(sd) == sd.stft.shape[3]

Zero == <<0, 0>>

Add(z, w) == <<z[1] + w[1], z[2] + w[2]>>

AbsInt(n) == IF n < 0 THEN -n ELSE n

\* |z| for the values the model feeds in: exact integer magnitudes.
Magnitude(z) ==
    IF z[2] = 0 THEN AbsInt(z[1])
    ELSE IF z[1] = 0 THEN AbsInt(z[2])
    ELSE CHOOSE m \in 0..(AbsInt(z[1]) + AbsInt(z[2])) : m * m = z[1] * z[1] + z[2] * z[2]

Min(a, b) == IF a < b THEN a ELSE b

Max(a, b) == IF a > b THEN a ELSE b

RECURSIVE SumTo(_, _)
SumTo(f, n) == IF n < 0 THEN 0 ELSE f[n] + SumTo(f, n - 1)

\* ------------------------------------------------------------------------
\* core/spectral.py: the .spx encoding.  A stream is a sequence of bytes; a
\* byte is <<tag, key, number, string>>:
\*   <<"chr", c, 0, "">>        the ASCII character c
\*   <<"u8", "", n, "">>        the byte n of a packed integer
\*   <<"{", ...>> <<"}", ...>>  the braces of the JSON header
\*   <<"kv", k, n, s>>          the JSON member k with value n (s for a string)
\*   <<"ws", "", 0, "">>        JSON whitespace
\*   <<"f32", j, v, "">>        byte j ("b0".."b3") of the float32 v
\* The JSON text is modelled lexeme by lexeme, a lexeme counting as one byte.
\* ------------------------------------------------------------------------
Chr(c) == <<"chr", c, 0, "">>

MAGIC == <<Chr("S"), Chr("P"), Chr("X"), Chr("F")>>

HEADER_LEN_SIZE == 8

FORMAT_VERSION == 1

FloatSize == 4

\* struct.pack('<I', n) and its inverse
PackU32(n) ==
    [i \in 1..4 |-> <<"u8", "", (n \div (IF i = 1 THEN 1 ELSE IF i = 2 THEN 256
                                       ELSE IF i = 3 THEN 65536 ELSE 16777216)) % 256, "">>]

UnpackU32(bs) == bs[1][3] + 256 * bs[2][3] + 65536 * bs[3][3] + 16777216 * bs[4][3]

\* One float32 as its four bytes, and four bytes as a float32.  Four bytes
\* that no float of the model encodes to are some other float.
OtherFloat == 999

F32Names == <<"b0", "b1", "b2", "b3">>

PackF32(v) == [j \in 1..FloatSize |-> <<"f32", F32Names[j], v, "">>]

UnpackF32(bs) == IF bs = PackF32(bs[1][3]) THEN bs[1][3] ELSE OtherFloat

Member(k, n, str) == <<"kv", k, n, str>>

OpenBrace == <<"{", "", 0, "">>

CloseBrace == <<"}", "", 0, "">>

Space == <<"ws", "", 0, "">>

\* json.dumps(_header_dict(sd)).encode('utf-8')
_header_dict(sd) ==
    <<Member("version", FORMAT_VERSION, ""),
      Member("sample_rate", sd.sample_rate, ""),
      Member("n_fft", sd.n_fft, ""),
      Member("hop_length", sd.hop_length, ""),
      Member("window", 0, sd.window),
      Member("original_frames", sd.original_frames, ""),
      Member("channels", channels(sd), ""),
      Member("frames", frames(sd), ""),
      Member("bins", bins(sd), "")>>

JsonDumps(members) == <<OpenBrace>> \o members \o <<CloseBrace>>

\* The body with the imaginary part written before the real part.
_stft_to_bytes_imag_first(sd) ==
    LET data == sd.stft.data
    IN  [i \in 1..(2 * FloatSize * Len(data)) |->
            PackF32(data[((i - 1) \div (2 * FloatSize)) + 1]
                        [2 - (((i - 1) \div FloatSize) % 2)])[((i - 1) % FloatSize) + 1]]

\* np.stack([real, imag], axis=-1).astype('<f4').tobytes(): row-major over
\* (channels, frames, bins, 2)
_stft_to_bytes(sd) ==
    LET data == sd.stft.data
    IN  [i \in 1..(2 * FloatSize * Len(data)) |->
            PackF32(data[((i - 1) \div (2 * FloatSize)) + 1]
                        [(((i - 1) \div FloatSize) % 2) + 1])[((i - 1) % FloatSize) + 1]]

\* struct.pack(HEADER_LEN_FMT, MAGIC, len(header_json))
PackPrefix(magic, n) == magic \o PackU32(n)

\* What save writes to the file, and write_pipe to the stream.
Encode(sd) ==
    LET header_json == JsonDumps(_header_dict(sd))
    IN  PackPrefix(MAGIC, Len(header_json)) \o header_json \o _stft_to_bytes(sd)

\* stream.read(n) at position `at` (0-based): at most n bytes, fewer at the end.
Read(s, at, n) == SubSeq(s, at + 1, Min(Len(s), at + n))

\* json.loads(text): whitespace, an object of members, whitespace.  The
\* result maps each key present to its <<number, string>> (the last wins).
Strip(bs) ==
    LET first == CHOOSE i \in 1..(Len(bs) + 1) :
                     /\ \A j \in 1..(i - 1) : bs[j] = Space
                     /\ i = Len(bs) + 1 \/ bs[i] # Space
        last_ == CHOOSE i \in 0..Len(bs) :
                     /\ \A j \in (i + 1)..Len(bs) : bs[j] = Space
                     /\ i = 0 \/ bs[i] # Space
    IN  SubSeq(bs, first, last_)

JsonLoads(bs) ==
    LET text == Strip(bs)
        n == Len(text)
        wellformed == /\ n >= 2
                      /\ text[1] = OpenBrace
                      /\ text[n] = CloseBrace
                      /\ \A i \in 2..(n - 1) : text[i][1] = "kv"
        keys == {text[i][2] : i \in 2..(n - 1)}
        where(k) == CHOOSE i \in 2..(n - 1) :
                      text[i][2] = k /\ \A j \in (i + 1)..(n - 1) : text[j][2] # k
    IN  IF wellformed
        THEN [ok |-> TRUE, dict |-> [k \in keys |-> <<text[where(k)][3], text[where(k)][4]>>]]
        ELSE [ok |-> FALSE, dict |-> <<>>]

\* ndarray.reshape(channels, frames, bins, 2) of `count` floats: the shape
\* it gives, or <<>> when numpy refuses.  One dimension of -1 is inferred
\* from the others.
Reshape(count, ch, fr, nb) ==
    LET dims == <<ch, fr, nb>>
        wild == {i \in 1..3 : dims[i] = -1}
        known == 2 * (IF ch = -1 THEN 1 ELSE ch) * (IF fr = -1 THEN 1 ELSE fr)
                   * (IF nb = -1 THEN 1 ELSE nb)
    IN  IF \E i \in 1..3 : dims[i] < -1 THEN <<>>
        ELSE IF wild = {} THEN (IF known = count THEN dims ELSE <<>>)
        ELSE IF Cardinality(wild) > 1 \/ known = 0 \/ count % known # 0 THEN <<>>
        ELSE [i \in 1..3 |-> IF dims[i] = -1 THEN count \div known ELSE dims[i]]

\* np.frombuffer(data, dtype='<f4').reshape(channels, frames, bins, 2), then
\* ri[..., 0] + 1j * ri[..., 1]
_bytes_to_stft(data, ch, fr, nb) ==
    IF Len(data) % FloatSize # 0
    THEN [ok |-> FALSE, stft |-> Tensor(<<0, 0, 0>>, <<>>)]
    ELSE LET count == Len(data) \div FloatSize
             shape == Reshape(count, ch, fr, nb)
             float(k) == UnpackF32(SubSeq(data, FloatSize * (k - 1) + 1, FloatSize * k))
         IN  IF shape = <<>>
             THEN [ok |-> FALSE, stft |-> Tensor(<<0, 0, 0>>, <<>>)]
             ELSE [ok |-> TRUE,
                   stft |-> Tensor(shape, [i \in 1..(count \div 2) |->
                                              <<float(2 * i - 1), float(2 * i)>>])]

\* ------------------------------------------------------------------------
\* tools/decompose.py
\* ------------------------------------------------------------------------
\* np.abs(sd.stft).mean(axis=(0, 1)): one value per bin.
_mean_magnitude(sd) ==
    LET C == channels(sd)
        F == frames(sd)
        col(b) == [n \in 0..(C * F - 1) |-> Magnitude(At(sd.stft, n \div F, n % F, b))]
    IN  [b \in 0..(bins(sd) - 1) |-> SumTo(col(b), C * F - 1) \div (C * F)]

\* 20 * log10(max(m, 1e-10)), exact on the powers of ten the model feeds in.
Pow10(L) == IF L = 0 THEN 1 ELSE IF L = 1 THEN 10 ELSE IF L = 2 THEN 100 ELSE 1000

Decibel(m) == IF m = 0 THEN -200 ELSE 20 * (CHOOSE L \in 0..3 : Pow10(L) = m)

\* -np.inf, below every level and every difference of levels.
NegInf == -1000000

\* np.linspace(0, nyquist, bins), in Hz (the model's rates make it integral).
freq_bins_of(sd) ==
    [k \in 0..(bins(sd) - 1) |-> (k * (sd.sample_rate \div 2)) \div (bins(sd) - 1)]

\* scipy.signal.find_peaks, local maxima: a rise, a plateau of equal samples
\* that ends before the last sample, and a fall; reported at the plateau's
\* middle (rounded down).  The first and last sample are never peaks.
_local_maxima_1d(x, n) ==
    {(l + r) \div 2 : <<l, r>> \in
        {lr \in (1..(n - 2)) \X (1..(n - 2)) :
            /\ lr[1] <= lr[2]
            /\ x[lr[1] - 1] < x[lr[1]]
            /\ \A i \in lr[1]..lr[2] : x[i] = x[lr[1]]
            /\ x[lr[2] + 1] < x[lr[2]]}}

\* scipy.signal.peak_prominences with no window: on each side walk outward
\* until a sample strictly higher than the peak, taking the minimum; the
\* prominence is the peak's height above the higher of the two minima.
RECURSIVE WalkMin(_, _, _, _, _, _)
WalkMin(x, peak, i, step, n, m) ==
    IF i < 0 \/ i > n - 1 \/ x[i] > x[peak] THEN m
    ELSE WalkMin(x, peak, i + step, step, n, Min(m, x[i]))

_peak_prominences(x, n, peak) ==
    x[peak] - Max(WalkMin(x, peak, peak, -1, n, x[peak]),
                  WalkMin(x, peak, peak, 1, n, x[peak]))

\* find_peaks(db_search, prominence=p): the peaks whose prominence is >= p.
find_peaks(x, n, prominence) ==
    {pk \in _local_maxima_1d(x, n) : _peak_prominences(x, n, pk) >= prominence}

\* A finite set of integers as an ascending sequence (sorted(...)).
RECURSIVE Sorted(_)
Sorted(S) ==
    IF S = {} THEN <<>>
    ELSE LET m == CHOOSE a \in S : \A b \in S : a <= b
         IN  <<m>> \o Sorted(S \ {m})

\* Python's round(a / b) for b > 0: to the nearest integer, a tie to the even one.
RoundDiv(a, b) ==
    LET q == a \div b
        r2 == 2 * (a % b)
    IN  IF r2 < b THEN q
        ELSE IF r2 > b THEN q + 1
        ELSE IF q % 2 = 0 THEN q ELSE q + 1

\* is_harmonic with a tolerance of 25%.
is_harmonic_quarter(hz, f) ==
    LET n == RoundDiv(hz, f)
    IN  n >= 2 /\ 4 * AbsInt(hz - n * f) < n * f

\* abs(hz / f - round(hz / f)) / round(hz / f) < 0.05, for round(hz / f) >= 2
is_harmonic(hz, f) ==
    LET n == RoundDiv(hz, f)
    IN  n >= 2 /\ 20 * AbsInt(hz - n * f) < n * f

\* The sieve over the candidates in ascending frequency: <<hz, bin>> pairs.
RECURSIVE Sieve(_, _)
Sieve(candidates, accepted) ==
    IF candidates = <<>> THEN accepted
    ELSE LET c == Head(candidates)
             harmonic == \E i \in 1..Len(accepted) : is_harmonic(c[1], accepted[i][1])
         IN  Sieve(Tail(candidates),
                   IF harmonic THEN accepted ELSE Append(accepted, c))

\* candidates_of keeping one peak more: peaks[order[:max_notes + 1]]
candidates_of_one_more(db_search, freq_bins, n, max_notes, prominence_db) ==
    LET peaks == find_peaks(db_search, n, prominence_db)
        prom == [pk \in peaks |-> _peak_prominences(db_search, n, pk)]
        before(q, pk) == prom[q] > prom[pk] \/ (prom[q] = prom[pk] /\ q < pk)
        kept == {pk \in peaks : Cardinality({q \in peaks : before(q, pk)}) < max_notes + 1}
        order == Sorted(kept)
    IN  [i \in 1..Len(order) |-> <<freq_bins[order[i]], order[i]>>]

\* order = argsort(-prominences); peaks = peaks[order[:max_notes]];
\* candidates = sorted((freq_bins[p], int(p)) for p in peaks)
candidates_of(db_search, freq_bins, n, max_notes, prominence_db) ==
    LET peaks == find_peaks(db_search, n, prominence_db)
        prom == [pk \in peaks |-> _peak_prominences(db_search, n, pk)]
        before(q, pk) == prom[q] > prom[pk] \/ (prom[q] = prom[pk] /\ q < pk)
        kept == {pk \in peaks : Cardinality({q \in peaks : before(q, pk)}) < max_notes}
        order == Sorted(kept)
    IN  [i \in 1..Len(order) |-> <<freq_bins[order[i]], order[i]>>]

\* The part of _find_fundamentals after db_search is built: the sieve over
\* the candidates.
FromPeaks(db_search, freq_bins, n, max_notes, prominence_db) ==
    Sieve(candidates_of(db_search, freq_bins, n, max_notes, prominence_db), <<>>)

_find_fundamentals(mean_mag, freq_bins, n, min_freq, max_notes, prominence_db) ==
    LET db == [b \in 0..(n - 1) |-> Decibel(mean_mag[b])]
        db_search == [b \in 0..(n - 1) |-> IF freq_bins[b] < min_freq THEN NegInf ELSE db[b]]
    IN  CHOOSE r \in {FromPeaks(x, freq_bins, n, max_notes, prominence_db) : x \in {db_search}} :
            TRUE

\* np.argmin(np.abs(freq_bins - target)): the first of the nearest bins.
Nearest(freq_bins, n, target) ==
    CHOOSE k \in 0..(n - 1) :
        /\ \A j \in 0..(n - 1) : AbsInt(freq_bins[k] - target) <= AbsInt(freq_bins[j] - target)
        /\ \A j \in 0..(k - 1) : AbsInt(freq_bins[j] - target) > AbsInt(freq_bins[k] - target)

\* mask[lo:hi] = True: the slice without its last bin
Window_exclusive(freq_bins, n, target, bin_window) ==
    LET nearest == Nearest(freq_bins, n, target)
        lo == Max(0, nearest - bin_window)
        hi == Min(n - 1, nearest + bin_window)
    IN  lo..(hi - 1)

\* mask[lo:hi + 1] = True around one target
Window(freq_bins, n, target, bin_window) ==
    LET nearest == Nearest(freq_bins, n, target)
        lo == Max(0, nearest - bin_window)
        hi == Min(n - 1, nearest + bin_window)
    IN  lo..hi

\* The harmonics n = 1, 2, ... in turn, stopping at the first above Nyquist.
RECURSIVE HarmonicsFrom(_, _, _, _, _, _)
HarmonicsFrom(h, fundamental_hz, freq_bins, n, bin_window, max_harmonics) ==
    IF h > max_harmonics \/ h * fundamental_hz > freq_bins[n - 1] THEN {}
    ELSE Window(freq_bins, n, h * fundamental_hz, bin_window)
         \cup HarmonicsFrom(h + 1, fundamental_hz, freq_bins, n, bin_window, max_harmonics)

_harmonic_bins(fundamental_hz, freq_bins, n, bin_window, max_harmonics) ==
    LET S == HarmonicsFrom(1, fundamental_hz, freq_bins, n, bin_window, max_harmonics)
    IN  [b \in 0..(n - 1) |-> b \in S]

_fundamental_only_bins(fundamental_hz, freq_bins, n, bin_window) ==
    LET S == Window(freq_bins, n, fundamental_hz, bin_window)
    IN  [b \in 0..(n - 1) |-> b \in S]

\* The mask applied the wrong way round: the bins of the mask are zeroed.
_apply_mask_inverted(sd, bin_mask) ==
    LET B == bins(sd)
        masked == [i \in 1..Len(sd.stft.data) |->
                      IF bin_mask[(i - 1) % B] THEN Zero ELSE sd.stft.data[i]]
    IN  [sd EXCEPT !.stft = Tensor(sd.stft.shape, masked)]

\* masked[:, :, ~bin_mask] = 0.0
_apply_mask(sd, bin_mask) ==
    LET B == bins(sd)
        masked == [i \in 1..Len(sd.stft.data) |->
                      IF bin_mask[(i - 1) % B] THEN sd.stft.data[i] ELSE Zero]
    IN  [sd EXCEPT !.stft = Tensor(sd.stft.shape, masked)]

\* ------------------------------------------------------------------------
\* tools/join.py
\* ------------------------------------------------------------------------
\* _compatible without the test of n_fft.
_compatible_no_n_fft(a, b) ==
    LET test(differs, field) == IF differs THEN <<field>> ELSE <<>>
    IN  test(a.sample_rate # b.sample_rate, "sample_rate")
        \o test(a.hop_length # b.hop_length, "hop_length")
        \o test(a.window # b.window, "window")
        \o test(channels(a) # channels(b), "channels")

\* The fields of b that differ from a's, in the order they are tested.
_compatible(a, b) ==
    LET test(differs, field) == IF differs THEN <<field>> ELSE <<>>
    IN  test(a.sample_rate # b.sample_rate, "sample_rate")
        \o test(a.n_fft # b.n_fft, "n_fft")
        \o test(a.hop_length # b.hop_length, "hop_length")
        \o test(a.window # b.window, "window")
        \o test(channels(a) # channels(b), "channels")

\* max(p.frames for p in parts), min(...), max(p.original_frames for p in parts)
RECURSIVE max_frames_of(_, _)
max_frames_of(ps, n) ==
    IF n = 1 THEN frames(ps[1]) ELSE Max(frames(ps[n]), max_frames_of(ps, n - 1))

RECURSIVE min_frames_of(_, _)
min_frames_of(ps, n) ==
    IF n = 1 THEN frames(ps[1]) ELSE Min(frames(ps[n]), min_frames_of(ps, n - 1))

\* max_orig taken from the first input alone.
max_orig_first(ps, n) == ps[1].original_frames

RECURSIVE max_orig_of(_, _)
max_orig_of(ps, n) ==
    IF n = 1 THEN ps[1].original_frames
    ELSE Max(ps[n].original_frames, max_orig_of(ps, n - 1))

\* acc[:, :p.frames, :] += p.stft needs p's channel and bin counts to be
\* acc's (or 1, which numpy broadcasts).
Broadcasts(p, ch, nbins) ==
    /\ channels(p) \in {ch, 1}
    /\ bins(p) \in {nbins, 1}

\* One element of acc after acc[:, :p.frames, :] += p.stft for the first n ps.
RECURSIVE Accumulate(_, _, _, _, _)
Accumulate(ps, n, c, f, b) ==
    IF n = 0 THEN Zero
    ELSE LET p == ps[n]
         IN  IF f < frames(p)
             THEN Add(Accumulate(ps, n - 1, c, f, b),
                      At(p.stft, IF channels(p) = 1 THEN 0 ELSE c, f,
                         IF bins(p) = 1 THEN 0 ELSE b))
             ELSE Accumulate(ps, n - 1, c, f, b)

NoFrame == SpectralData(Tensor(<<0, 0, 0>>, <<>>), 0, 0, 0, "", 0)

_join(ps, strictly) ==
    LET n == Len(ps)
        max_frames == max_frames_of(ps, n)
        min_frames == min_frames_of(ps, n)
        ref == ps[1]
        shape == <<channels(ref), max_frames, bins(ref)>>
    IN  IF strictly /\ max_frames # min_frames
        THEN [ok |-> FALSE, error |-> "Frame count mismatch", sd |-> NoFrame]
        ELSE IF \E i \in 1..n : ~Broadcasts(ps[i], shape[1], shape[3])
        THEN [ok |-> FALSE, error |-> "operands could not be broadcast", sd |-> NoFrame]
        ELSE [ok |-> TRUE, error |-> "",
              sd |-> SpectralData(
                         Tensor(shape,
                                [i \in 1..Size(shape) |->
                                    Accumulate(ps, n, (i - 1) \div (shape[2] * shape[3]),
                                               ((i - 1) \div shape[3]) % shape[2],
                                               (i - 1) % shape[3])]),
                                  ref.sample_rate, ref.n_fft, ref.hop_length, ref.window,
                                  max_orig_of(ps, n))]

\* ------------------------------------------------------------------------
\* studio/sound.py: values held by a wrapper.  A signal is carried as the
\* term that produced it (the source signal followed by the functions
\* applied to it), so two values are equal only if they were computed the
\* same way.
\* ------------------------------------------------------------------------
None == [kind |-> "None", term |-> <<>>, silent |-> FALSE]

AudioOf(term, silent) == [kind |-> "AudioData", term |-> term, silent |-> silent]

SpectralOf(term, silent) == [kind |-> "SpectralData", term |-> term, silent |-> silent]

Apply(fn, v) == [v EXCEPT !.term = Append(@, fn)]

compute_stft(a) == SpectralOf(Append(a.term, "stft"), a.silent)

compute_istft(sd) == AudioOf(Append(sd.term, "istft"), sd.silent)

Sound(a, sd, name) == [_audio |-> a, _spectral |-> sd, _name |-> name]

\* The audio property dropping the spectral slot once it has converted it.
audio_clearing(self) ==
    IF self._audio = None
    THEN LET a == compute_istft(self._spectral)
         IN  [val |-> a, self |-> [self EXCEPT !._audio = a, !._spectral = None],
              fwd |-> 0, inv |-> 1]
    ELSE [val |-> self._audio, self |-> self, fwd |-> 0, inv |-> 0]

\* The lazy properties.  Each returns the value, the receiver as the access
\* leaves it, and the number of transforms it ran.
audio(self) ==
    IF self._audio = None
    THEN LET a == compute_istft(self._spectral)
         IN  [val |-> a, self |-> [self EXCEPT !._audio = a], fwd |-> 0, inv |-> 1]
    ELSE [val |-> self._audio, self |-> self, fwd |-> 0, inv |-> 0]

\* The spectral property without the assignment to self._spectral.
spectral_not_memoized(self) ==
    IF self._spectral = None
    THEN [val |-> compute_stft(self._audio), self |-> self, fwd |-> 1, inv |-> 0]
    ELSE [val |-> self._spectral, self |-> self, fwd |-> 0, inv |-> 0]

spectral(self) ==
    IF self._spectral = None
    THEN LET sd == compute_stft(self._audio)
         IN  [val |-> sd, self |-> [self EXCEPT !._spectral = sd], fwd |-> 1, inv |-> 0]
    ELSE [val |-> self._spectral, self |-> self, fwd |-> 0, inv |-> 0]

Names == {"test"}
Signals == {"tone", "silence"}

NoCall == [op |-> "none", recv |-> 0, before |-> Sound(None, None, ""),
           result |-> 0, fwd |-> 0, inv |-> 0, error |-> ""]

InitSound ==
    /\ sounds = <<>>
    /\ fwd = <<>>
    /\ inv = <<>>
    /\ last = NoCall

\* Sound.__init__ (also sound.load, which gives exactly one slot): audio,
\* spectral, both or neither is given; with neither it raises and there is
\* no instance.  `before` holds the arguments.
Construct ==
    /\ Len(sounds) < MaxSounds
    /\ \E sig \in Signals, name \in Names, given \in SUBSET {"audio", "spectral"} :
         LET a == IF "audio" \in given THEN AudioOf(<<sig>>, sig = "silence") ELSE None
             sd == IF "spectral" \in given THEN SpectralOf(<<sig>>, sig = "silence") ELSE None
             made == [NoCall EXCEPT !.op = "__init__", !.before = Sound(a, sd, name)]
         IN  IF a = None /\ sd = None
             THEN /\ last' = [made EXCEPT
                                 !.error = "ValueError: Sound requires at least one of audio or spectral"]
                  /\ UNCHANGED <<sounds, fwd, inv, dvars, cvars, jvars, tvars>>
             ELSE /\ sounds' = Append(sounds, Sound(a, sd, name))
                  /\ fwd' = Append(fwd, 0)
                  /\ inv' = Append(inv, 0)
                  /\ last' = [made EXCEPT !.recv = Len(sounds) + 1, !.result = Len(sounds) + 1]
                  /\ UNCHANGED <<dvars, cvars, jvars, tvars>>

\* tools/*.py: the functions the wrapper hands its values to.
_gain_audio(a) == Apply("_gain_audio", a)

_gain_spectral(sd) == Apply("_gain_spectral", sd)

\* tools/normalize.py: silence is returned as it is.
_normalize_audio(a) == IF a.silent THEN a ELSE Apply("_normalize_audio", a)

\* tools/normalize.py: the level is measured on a resynthesis of the frame,
\* so each call runs compute_istft once.
_normalize_spectral(sd) ==
    LET samples == compute_istft(sd)
    IN  [val |-> IF samples.silent THEN sd ELSE Apply("_normalize_spectral", sd),
         inv |-> 1]

_fade_audio(a) == Apply("_fade_audio", a)

_fade_spectral(sd) == Apply("_fade_spectral", sd)

_reverse_audio(a) == Apply("_reverse_audio", a)

_reverse_spectral(sd) == Apply("_reverse_spectral", sd)

_trim_audio(a) == Apply("_trim_audio", a)

_trim_spectral(sd) == Apply("_trim_spectral", sd)

_loop_audio(a) == Apply("_loop_audio", a)

_loop_spectral(sd) == Apply("_loop_spectral", sd)

_apply_filter(a) == Apply("_apply_filter", a)

_filter_spectral(sd) == Apply("_filter_spectral", sd)

_transpose(sd) == Apply("_transpose", sd)

_gate(sd) == Apply("_gate", sd)

_denoise(sd) == Apply("_denoise", sd)

_stretch(sd) == Apply("_stretch", sd)

_morph(sd1, sd2) == [sd1 EXCEPT !.term = Append(@, "_morph") \o sd2.term,
                                !.silent = sd1.silent /\ sd2.silent]

MaskedTerm(sd) == Apply("_apply_mask", sd)

DomainPreserving == {"gain", "normalize", "fade", "reverse", "trim", "loop", "filter"}

SpectralOnly == {"transpose", "gate", "denoise", "stretch", "morph", "decompose"}

\* A call on wrapper i that returns a new wrapper: the receiver is left as
\* the call's property accesses left it, and the result is a new instance.
Returns(i, op, selfAfter, result, nf, ni) ==
    /\ sounds' = Append([sounds EXCEPT ![i] = selfAfter], result)
    /\ fwd' = Append([fwd EXCEPT ![i] = @ + nf], 0)
    /\ inv' = Append([inv EXCEPT ![i] = @ + ni], 0)
    /\ last' = [op |-> op, recv |-> i, before |-> sounds[i],
                result |-> Len(sounds) + 1, fwd |-> nf, inv |-> ni, error |-> ""]
    /\ UNCHANGED <<dvars, cvars, jvars, tvars>>

\* A call on wrapper i that returns no wrapper.
Touches(i, op, selfAfter, nf, ni) ==
    /\ sounds' = [sounds EXCEPT ![i] = selfAfter]
    /\ fwd' = [fwd EXCEPT ![i] = @ + nf]
    /\ inv' = [inv EXCEPT ![i] = @ + ni]
    /\ last' = [op |-> op, recv |-> i, before |-> sounds[i],
                result |-> 0, fwd |-> nf, inv |-> ni, error |-> ""]
    /\ UNCHANGED <<dvars, cvars, jvars, tvars>>

\* The shape shared by gain, fade, reverse, trim and loop:
\*   if self._spectral is not None: Sound(spectral=fs(self.spectral))
\*   return Sound(audio=fa(self.audio))
\* with in_spectral = fs(self.spectral) and in_audio = fa(self.audio).
DualDomain(i, op, in_spectral, in_audio) ==
    LET self == sounds[i]
    IN  IF self._spectral # None
        THEN LET p == spectral(self)
             IN  Returns(i, op, p.self, Sound(None, in_spectral, self._name), p.fwd, p.inv)
        ELSE LET p == audio(self)
             IN  Returns(i, op, p.self, Sound(in_audio, None, self._name), p.fwd, p.inv)

HasRoom == Len(sounds) < MaxSounds

Instances == 1..Len(sounds)

\* The audio and spectral properties read from outside (also samples, stft).
GetAudio ==
    \E i \in Instances :
        LET p == audio(sounds[i]) IN Touches(i, "audio", p.self, p.fwd, p.inv)

GetSpectral ==
    \E i \in Instances :
        LET p == spectral(sounds[i]) IN Touches(i, "spectral", p.self, p.fwd, p.inv)

gain ==
    /\ HasRoom
    /\ \E i \in Instances :
           DualDomain(i, "gain", _gain_spectral(spectral(sounds[i]).val),
                      _gain_audio(audio(sounds[i]).val))

normalize ==
    /\ HasRoom
    /\ \E i \in Instances :
        LET self == sounds[i]
        IN  IF self._spectral # None
            THEN LET p == spectral(self)
                     r == _normalize_spectral(p.val)
                 IN  Returns(i, "normalize", p.self, Sound(None, r.val, self._name),
                             p.fwd, p.inv + r.inv)
            ELSE LET p == audio(self)
                 IN  Returns(i, "normalize", p.self,
                             Sound(_normalize_audio(p.val), None, self._name), p.fwd, p.inv)

fade ==
    /\ HasRoom
    /\ \E i \in Instances :
           DualDomain(i, "fade", _fade_spectral(spectral(sounds[i]).val),
                      _fade_audio(audio(sounds[i]).val))

reverse ==
    /\ HasRoom
    /\ \E i \in Instances :
           DualDomain(i, "reverse", _reverse_spectral(spectral(sounds[i]).val),
                      _reverse_audio(audio(sounds[i]).val))

\* trim reads self.duration first, which reads whichever slot is filled.
trim ==
    /\ HasRoom
    /\ \E i \in Instances :
           DualDomain(i, "trim", _trim_spectral(spectral(sounds[i]).val),
                      _trim_audio(audio(sounds[i]).val))

loop ==
    /\ HasRoom
    /\ \E i \in Instances :
           DualDomain(i, "loop", _loop_spectral(spectral(sounds[i]).val),
                      _loop_audio(audio(sounds[i]).val))

filter ==
    /\ HasRoom
    /\ \E i \in Instances :
           DualDomain(i, "filter", _filter_spectral(spectral(sounds[i]).val),
                      _apply_filter(audio(sounds[i]).val))

pad ==
    /\ HasRoom
    /\ \E i \in Instances :
        LET p == audio(sounds[i])
        IN  Returns(i, "pad", p.self, Sound(Apply("pad", p.val), None, sounds[i]._name),
                    p.fwd, p.inv)

\* The shape shared by transpose, gate, denoise and stretch:
\*   return Sound(spectral=f(self.spectral))
\* with out = f(self.spectral).
SpectralOp(i, op, out) ==
    LET p == spectral(sounds[i])
    IN  Returns(i, op, p.self, Sound(None, out, sounds[i]._name), p.fwd, p.inv)

transpose == HasRoom /\ \E i \in Instances : SpectralOp(i, "transpose", _transpose(spectral(sounds[i]).val))

gate == HasRoom /\ \E i \in Instances : SpectralOp(i, "gate", _gate(spectral(sounds[i]).val))

denoise == HasRoom /\ \E i \in Instances : SpectralOp(i, "denoise", _denoise(spectral(sounds[i]).val))

stretch == HasRoom /\ \E i \in Instances : SpectralOp(i, "stretch", _stretch(spectral(sounds[i]).val))

\* morph reads self.spectral and other.spectral: both wrappers may be filled.
morph ==
    /\ HasRoom
    /\ \E i \in Instances, j \in Instances :
        LET p == spectral(sounds[i])
            mid == [sounds EXCEPT ![i] = p.self]
            q == spectral(mid[j])
            res == Sound(None, _morph(p.val, q.val), sounds[i]._name)
        IN  /\ sounds' = Append([mid EXCEPT ![j] = q.self], res)
            /\ fwd' = Append([[fwd EXCEPT ![i] = @ + p.fwd] EXCEPT ![j] = @ + q.fwd], 0)
            /\ inv' = Append(inv, 0)
            /\ last' = [op |-> "morph", recv |-> i, before |-> sounds[i],
                        result |-> Len(sounds) + 1, fwd |-> p.fwd + q.fwd, inv |-> 0,
                        error |-> ""]
            /\ UNCHANGED <<dvars, cvars, jvars, tvars>>

\* decompose reads self.spectral and returns one wrapper per component; the
\* number of components depends on the signal (none for silence).
decompose ==
    /\ HasRoom
    /\ \E i \in Instances, n \in {0, 1} :
        LET p == spectral(sounds[i])
        IN  /\ p.val.silent => n = 0
            /\ IF n = 0
               THEN Touches(i, "decompose", p.self, p.fwd, p.inv)
               ELSE Returns(i, "decompose", p.self,
                            Sound(None, MaskedTerm(p.val), "hz"), p.fwd, p.inv)

pitch_track ==
    \E i \in Instances :
        LET p == spectral(sounds[i]) IN Touches(i, "pitch_track", p.self, p.fwd, p.inv)

rms ==
    \E i \in Instances :
        LET p == audio(sounds[i]) IN Touches(i, "rms", p.self, p.fwd, p.inv)

\* Sound.save: the .spx suffix selects the spectral slot, anything else audio.
save ==
    \E i \in Instances, spx \in BOOLEAN :
        LET p == IF spx THEN spectral(sounds[i]) ELSE audio(sounds[i])
        IN  Touches(i, "save", p.self, p.fwd, p.inv)

\* ------------------------------------------------------------------------
\* A run of decompose: tools/decompose.py main (entry "main": the components
\* and the remainder are written as files, which join then reads) and
\* studio/sound.py Sound.decompose (entry "Sound": a list of wrappers).
\* ------------------------------------------------------------------------
NoInput == [sd |-> NoFrame, entry |-> "", no_harmonics |-> FALSE, no_remainder |-> FALSE,
            max_notes |-> 0, min_freq |-> 0, prominence |-> 0, bin_window |-> 0,
            max_harmonics |-> 0]

NoJoin == [ok |-> FALSE, error |-> "", sd |-> NoFrame]

DecomposeIdle ==
    /\ dpc = "idle"
    /\ din = NoInput
    /\ fundamentals = <<>>
    /\ claimed = <<>>
    /\ masks = <<>>
    /\ results = <<>>
    /\ joined = NoJoin

\* The input frames: 2 channels, 2 frames, 7 bins (n_fft 12) at 1200 Hz, so
\* that bin k is at 100 k Hz.  Each bin has one of three levels (magnitude
\* 1, 10, 100: 0, 20, 40 dB) in every channel and frame, with a phase that
\* turns with the channel and the frame; the edge bins are at the lowest
\* and at most one bin is at the middle level.
DecomposeShape == <<2, 2, 7>>

Levels == {0, 1, 2}

Profiles ==
    {pr \in [0..(DecomposeShape[3] - 1) -> Levels] :
        /\ pr[0] = 0
        /\ pr[DecomposeShape[3] - 1] = 0
        /\ Cardinality({b \in DOMAIN pr : pr[b] = 1}) <= 1}

Turn(m, q) ==
    IF q % 4 = 0 THEN <<m, 0>>
    ELSE IF q % 4 = 1 THEN <<0, m>>
    ELSE IF q % 4 = 2 THEN <<-m, 0>>
    ELSE <<0, -m>>

ProfileFrame(pr) ==
    LET C == DecomposeShape[1]
        F == DecomposeShape[2]
        B == DecomposeShape[3]
        elem(i) == Turn(Pow10(pr[(i - 1) % B]),
                        2 * ((i - 1) \div (F * B)) + (((i - 1) \div B) % F))
    IN  SpectralData(Tensor(DecomposeShape, [i \in 1..(C * F * B) |-> elem(i)]),
                     200 * (B - 1), 2 * (B - 1), 3, "hann", 5)

MinFreqs == {50, 250}

BinWindows == {0, 1}

Prominences == {15, 30}

Modes ==
    {[entry |-> "main", no_harmonics |-> h, no_remainder |-> r] : h \in BOOLEAN, r \in BOOLEAN}
    \cup {[entry |-> "Sound", no_harmonics |-> FALSE, no_remainder |-> TRUE]}

InitDecompose ==
    /\ dpc = "start"
    /\ \E pr \in Profiles, mode \in Modes, max_notes \in 1..MaxNotes, min_freq \in MinFreqs,
          prominence \in Prominences, bin_window \in BinWindows :
       \E max_harmonics \in 1..(IF mode.no_harmonics THEN 1 ELSE MaxHarmonics) :
         din = [sd |-> ProfileFrame(pr), entry |-> mode.entry,
                no_harmonics |-> mode.no_harmonics, no_remainder |-> mode.no_remainder,
                max_notes |-> max_notes, min_freq |-> min_freq, prominence |-> prominence,
                bin_window |-> bin_window, max_harmonics |-> max_harmonics]
    /\ fundamentals = <<>>
    /\ claimed = <<>>
    /\ masks = <<>>
    /\ results = <<>>
    /\ joined = NoJoin

\* Up to the loop: the fundamentals are detected.  With none, main prints a
\* hint and exits with status 1; Sound.decompose returns the empty list.
Detect ==
    /\ dpc = "start"
    /\ \E mean_mag \in {_mean_magnitude(din.sd)}, freq_bins \in {freq_bins_of(din.sd)} :
       \E found \in {_find_fundamentals(mean_mag, freq_bins, bins(din.sd), din.min_freq,
                                        din.max_notes, din.prominence)} :
           /\ fundamentals' = found
           /\ claimed' = [b \in 0..(bins(din.sd) - 1) |-> FALSE]
           /\ dpc' = IF found # <<>> THEN "loop"
                     ELSE IF din.entry = "main" THEN "exit" ELSE "done"
    /\ UNCHANGED <<din, masks, results, joined, svars, cvars, jvars, tvars>>

\* The mask without `& ~claimed`.
Unclaimed_kept(full, taken, n) == full

\* mask = mask & ~claimed
Unclaimed(full, taken, n) == [b \in 0..(n - 1) |-> full[b] /\ ~taken[b]]

\* One pass of the loop over the fundamentals.
Component ==
    /\ dpc = "loop"
    /\ LET n == bins(din.sd)
           hz == fundamentals[Len(masks) + 1][1]
       IN  \E freq_bins \in {freq_bins_of(din.sd)} :
           \E full \in {IF din.no_harmonics
                        THEN _fundamental_only_bins(hz, freq_bins, n, din.bin_window)
                        ELSE _harmonic_bins(hz, freq_bins, n, din.bin_window,
                                            din.max_harmonics)} :
           \E mask \in {Unclaimed(full, claimed, n)} :
               /\ claimed' = [b \in 0..(n - 1) |-> claimed[b] \/ mask[b]]
               /\ masks' = Append(masks, mask)
               /\ results' = Append(results, _apply_mask(din.sd, mask))
               /\ dpc' = IF Len(masks) + 1 < Len(fundamentals) THEN "loop"
                         ELSE IF din.no_remainder THEN "done" ELSE "remainder"
    /\ UNCHANGED <<din, fundamentals, joined, svars, cvars, jvars, tvars>>

\* remainder = _apply_mask(sd, ~claimed)
Remainder ==
    /\ dpc = "remainder"
    /\ \E rest \in {[b \in 0..(bins(din.sd) - 1) |-> ~claimed[b]]} :
           results' = Append(results, _apply_mask(din.sd, rest))
    /\ dpc' = "done"
    /\ UNCHANGED <<din, fundamentals, claimed, masks, joined, svars, cvars, jvars, tvars>>

\* tools/join.py main over the files decompose wrote, in strict mode: every
\* input after the first is tested against the first, then all are summed.
JoinMain(files, strictly) ==
    IF \E i \in 2..Len(files) : _compatible(files[1], files[i]) # <<>>
    THEN [ok |-> FALSE, error |-> "incompatible", sd |-> NoFrame]
    ELSE _join(files, strictly)

Rejoin ==
    /\ dpc = "done"
    /\ din.entry = "main"
    /\ joined' = JoinMain(results, TRUE)
    /\ dpc' = "joined"
    /\ UNCHANGED <<din, fundamentals, claimed, masks, results, svars, cvars, jvars, tvars>>

\* ------------------------------------------------------------------------
\* core/spectral.py: save and write_pipe write a frame, _read_stream (load,
\* read_pipe) reads one back.
\* ------------------------------------------------------------------------
NoHeader == [ok |-> FALSE, dict |-> <<>>]

CodecIdle ==
    /\ cpc = "idle"
    /\ via = ""
    /\ cframe = NoFrame
    /\ stream = <<>>
    /\ flushed = FALSE
    /\ pos = 0
    /\ hlen = 0
    /\ header = NoHeader
    /\ interpreted = 0
    /\ decoded = NoFrame
    /\ cerr = ""

\* The frames handed to the writers: every element of the tensor differs
\* from every other one in its real and in its imaginary part.
CodecShapes == {<<1, 0, 2>>, <<1, 1, 2>>, <<2, 2, 2>>, <<1, 2, 3>>}

CodecFrame(shape, hop_length, window, original_frames) ==
    SpectralData(Tensor(shape, [i \in 1..Size(shape) |-> <<2 * i - 1, -2 * i>>]),
                 8000, 2 * (shape[3] - 1), hop_length, window, original_frames)

CodecFrames ==
    {CodecFrame(shape, hop_length, window, original_frames) :
        shape \in CodecShapes, hop_length \in {1, 2}, window \in {"hann", "hamming"},
        original_frames \in {0, 5}}

\* The streams handed to the reader that no writer of this program wrote: a
\* written stream with its magic, declared header length, version, declared
\* n_fft or declared frame count changed, whitespace after the header,
\* bytes after the body, or cut short.
RawShapes == {<<1, 0, 2>>, <<1, 1, 2>>}

Replace(members, k, n) == [i \in 1..Len(members) |->
                              IF members[i][2] = k THEN Member(k, n, "") ELSE members[i]]

Spaces(n) == [i \in 1..n |-> Space]

RawStream(sd, magic_ok, hdelta, version, n_fft, frames_decl, blanks, extra) ==
    LET members == Replace(Replace(Replace(_header_dict(sd), "version", version),
                                   "n_fft", n_fft), "frames", frames_decl)
        header_json == JsonDumps(members)
        magic == IF magic_ok THEN MAGIC ELSE <<Chr("S"), Chr("P"), Chr("A"), Chr("W")>>
        tail == IF extra = 0 THEN <<>>
                ELSE IF extra = 1 THEN <<<<"u8", "", 0, "">>>>
                ELSE PackF32(7) \o PackF32(8) \o PackF32(9) \o PackF32(10)
    IN  PackPrefix(magic, Len(header_json) + hdelta) \o header_json \o Spaces(blanks)
            \o _stft_to_bytes(sd) \o tail

RawStreams ==
    UNION {
        LET full == RawStream(CodecFrame(shape, 1, "hann", 5), magic_ok, hdelta, version,
                              n_fft, IF wild THEN -1 ELSE shape[2] + more, blanks, extra)
        IN  {SubSeq(full, 1, cut) : cut \in 0..Len(full)} :
        shape \in RawShapes, magic_ok \in BOOLEAN, hdelta \in {-1, 0, 1},
        version \in {1, 2}, n_fft \in {2, 4}, wild \in BOOLEAN, more \in {0, 1},
        blanks \in {0, 1}, extra \in {0, 1, 4}}

InitCodec ==
    /\ \/ /\ cpc = "write"
          /\ via \in {"file", "pipe"}
          /\ cframe \in CodecFrames
          /\ stream = <<>>
       \/ /\ cpc = "read"
          /\ via = "raw"
          /\ cframe = NoFrame
          /\ stream \in RawStreams
    /\ flushed = FALSE
    /\ pos = 0
    /\ hlen = 0
    /\ header = NoHeader
    /\ interpreted = 0
    /\ decoded = NoFrame
    /\ cerr = ""

ReaderIdle == UNCHANGED <<pos, hlen, header, interpreted, decoded, cerr>>

\* save: the three writes, and the file is closed.
Save ==
    /\ cpc = "write"
    /\ via = "file"
    /\ LET header_json == JsonDumps(_header_dict(cframe))
       IN  stream' = PackPrefix(MAGIC, Len(header_json)) \o header_json
                         \o _stft_to_bytes(cframe)
    /\ flushed' = TRUE
    /\ cpc' = "read"
    /\ ReaderIdle
    /\ UNCHANGED <<via, cframe, svars, dvars, jvars, tvars>>

\* write_pipe: stream.write(prefix)
WritePrefix ==
    /\ cpc = "write"
    /\ via = "pipe"
    /\ stream' = stream \o PackPrefix(MAGIC, Len(JsonDumps(_header_dict(cframe))))
    /\ cpc' = "write_header"
    /\ ReaderIdle
    /\ UNCHANGED <<via, cframe, flushed, svars, dvars, jvars, tvars>>

\* write_pipe with a flush after the header
WriteHeader_flushing ==
    /\ cpc = "write_header"
    /\ stream' = stream \o JsonDumps(_header_dict(cframe))
    /\ flushed' = TRUE
    /\ cpc' = "write_body"
    /\ ReaderIdle
    /\ UNCHANGED <<via, cframe, svars, dvars, jvars, tvars>>

\* write_pipe: stream.write(header_json)
WriteHeader ==
    /\ cpc = "write_header"
    /\ stream' = stream \o JsonDumps(_header_dict(cframe))
    /\ cpc' = "write_body"
    /\ ReaderIdle
    /\ UNCHANGED <<via, cframe, flushed, svars, dvars, jvars, tvars>>

\* write_pipe: stream.write(body)
WriteBody ==
    /\ cpc = "write_body"
    /\ stream' = stream \o _stft_to_bytes(cframe)
    /\ cpc' = "flush"
    /\ ReaderIdle
    /\ UNCHANGED <<via, cframe, flushed, svars, dvars, jvars, tvars>>

\* write_pipe: stream.flush()
Flush ==
    /\ cpc = "flush"
    /\ flushed' = TRUE
    /\ cpc' = "read"
    /\ ReaderIdle
    /\ UNCHANGED <<via, cframe, stream, svars, dvars, jvars, tvars>>

Fail(why) ==
    /\ cerr' = why
    /\ cpc' = "failed"

\* _read_stream: the 8-byte prefix and the magic.
ReadPrefix ==
    /\ cpc = "read"
    /\ LET prefix == Read(stream, 0, HEADER_LEN_SIZE)
       IN  /\ pos' = Len(prefix)
           /\ IF Len(prefix) < HEADER_LEN_SIZE
              THEN Fail("Truncated .spx stream") /\ hlen' = hlen
              ELSE IF SubSeq(prefix, 1, 4) # MAGIC
              THEN Fail("Not a .spx file") /\ hlen' = UnpackU32(SubSeq(prefix, 5, 8))
              ELSE /\ hlen' = UnpackU32(SubSeq(prefix, 5, 8))
                   /\ cpc' = "read_header"
                   /\ cerr' = cerr
    /\ UNCHANGED <<via, cframe, stream, flushed, header, interpreted, decoded, svars, dvars, jvars, tvars>>

\* _read_stream: the header and its version.
ReadHeader ==
    /\ cpc = "read_header"
    /\ \E raw \in {Read(stream, pos, hlen)} : \E parsed \in {JsonLoads(raw)} :
           /\ pos' = pos + Len(raw)
           /\ header' = parsed
           /\ IF ~parsed.ok THEN Fail("JSONDecodeError")
              ELSE IF "version" \notin DOMAIN parsed.dict THEN Fail("KeyError")
              ELSE IF parsed.dict["version"] # <<FORMAT_VERSION, "">>
              THEN Fail("Unsupported .spx version")
              ELSE cpc' = "read_body" /\ cerr' = cerr
    /\ UNCHANGED <<via, cframe, stream, flushed, hlen, interpreted, decoded, svars, dvars, jvars, tvars>>

HeaderKeys == {"sample_rate", "n_fft", "hop_length", "window", "original_frames",
               "channels", "frames", "bins"}

\* _read_stream: the body to the end of the stream, and the frame.
ReadBody ==
    /\ cpc = "read_body"
    /\ \E body \in {Read(stream, pos, Len(stream))} :
           /\ pos' = pos + Len(body)
           /\ IF ~(HeaderKeys \subseteq DOMAIN header.dict)
              THEN Fail("KeyError") /\ UNCHANGED <<interpreted, decoded>>
              ELSE \E got \in {_bytes_to_stft(body, header.dict["channels"][1],
                                              header.dict["frames"][1],
                                              header.dict["bins"][1])} :
                       /\ interpreted' = Len(body)
                       /\ IF ~got.ok
                          THEN Fail("ValueError") /\ decoded' = decoded
                          ELSE /\ decoded' = SpectralData(got.stft,
                                                 header.dict["sample_rate"][1],
                                                 header.dict["n_fft"][1],
                                                 header.dict["hop_length"][1],
                                                 header.dict["window"][2],
                                                 header.dict["original_frames"][1])
                               /\ cpc' = "done"
                               /\ cerr' = cerr
    /\ UNCHANGED <<via, cframe, stream, flushed, hlen, header, svars, dvars, jvars, tvars>>

\* ------------------------------------------------------------------------
\* tools/join.py main: the inputs are loaded one by one, each after the
\* first tested against the first; then _join; then the output is written.
\* ------------------------------------------------------------------------
NoError == [kind |-> "", idx |-> 0, fields |-> <<>>]

JoinIdle ==
    /\ jpc = "idle"
    /\ jin = <<>>
    /\ strict = TRUE
    /\ parts = <<>>
    /\ jerr = NoError
    /\ summed = 0
    /\ jsum = NoFrame
    /\ jout = <<>>

\* The input files: input 0 and, for each further input, a frame that
\* differs from input 0 in a set of the five tested fields (n_fft changes
\* the number of bins with it), with its own frame count and values.
JoinFrame(differ, fr, seed) ==
    LET n_fft == IF "n_fft" \in differ THEN 4 ELSE 2
        shape == <<IF "channels" \in differ THEN 1 ELSE 2, fr, (n_fft \div 2) + 1>>
    IN  SpectralData(Tensor(shape, [i \in 1..Size(shape) |-> <<seed + i, seed - i>>]),
                     IF "sample_rate" \in differ THEN 16000 ELSE 8000,
                     n_fft,
                     IF "hop_length" \in differ THEN 2 ELSE 1,
                     IF "window" \in differ THEN "hamming" ELSE "hann",
                     fr + seed)

Differences ==
    {{}, {"sample_rate"}, {"n_fft"}, {"hop_length"}, {"window"}, {"channels"},
     {"n_fft", "window"}, {"sample_rate", "n_fft", "hop_length", "window", "channels"}}

\* A further input: what it differs in and its frame count.
Variants ==
    {[differ |-> d, fr |-> 1] : d \in Differences}
        \cup {[differ |-> d, fr |-> 2] : d \in {{}, {"n_fft", "window"}}}

JoinInputs ==
    UNION {
        {[i \in 1..n |-> JoinFrame(v[i].differ, v[i].fr, 10 * i)] :
            v \in {w \in [1..n -> Variants] : w[1].differ = {}}} :
        n \in 1..MaxInputs}

InitJoin ==
    /\ jpc = "load"
    /\ jin \in JoinInputs
    /\ strict \in BOOLEAN
    /\ parts = <<>>
    /\ jerr = NoError
    /\ summed = 0
    /\ jsum = NoFrame
    /\ jout = <<>>

\* One pass of the loop of main: load(path), _compatible(parts[0], sd, i),
\* parts.append(sd).
Load ==
    /\ jpc = "load"
    /\ LET i == Len(parts)
           sd == jin[i + 1]
       IN  \E mismatches \in {IF i > 0 THEN _compatible(parts[1], sd) ELSE <<>>} :
               IF mismatches # <<>>
               THEN /\ jerr' = [kind |-> "incompatible", idx |-> i, fields |-> mismatches]
                    /\ jpc' = "failed"
                    /\ parts' = parts
               ELSE /\ parts' = Append(parts, sd)
                    /\ jpc' = IF i + 1 = Len(jin) THEN "join" ELSE "load"
                    /\ jerr' = jerr
    /\ UNCHANGED <<jin, strict, summed, jsum, jout, svars, dvars, cvars, tvars>>

\* result = _join(parts, strict=strict)
Sum ==
    /\ jpc = "join"
    /\ \E got \in {_join(parts, strict)} :
           IF got.ok
           THEN /\ jsum' = got.sd
                /\ summed' = Len(parts)
                /\ jpc' = "write"
                /\ jerr' = jerr
           ELSE /\ jerr' = [kind |-> got.error, idx |-> 0, fields |-> <<>>]
                /\ jpc' = "failed"
                /\ UNCHANGED <<jsum, summed>>
    /\ UNCHANGED <<jin, strict, parts, jout, svars, dvars, cvars, tvars>>

\* write_pipe(result) or save(result, output)
Write ==
    /\ jpc = "write"
    /\ jout' = Encode(jsum)
    /\ jpc' = "written"
    /\ UNCHANGED <<jin, strict, parts, jerr, summed, jsum, svars, dvars, cvars, tvars>>

\* ------------------------------------------------------------------------
\* The operator library on frames of numbers: tools/gain.py, gate.py,
\* filter.py, denoise.py, transpose.py, stretch.py and morph.py.  Values are
\* exact integers: the inputs are chosen so that every mean, interpolation
\* and blend the operators compute is integral, and float32 rounding is
\* left out.  An operator that can raise returns [ok, error, kind, sd].
\* ------------------------------------------------------------------------
\* The 0-based (c, f, b) of the i-th element of a row-major buffer.
Unravel(shape, i) ==
    <<(i - 1) \div (shape[2] * shape[3]), ((i - 1) \div shape[3]) % shape[2],
      (i - 1) % shape[3]>>

\* |z|^2
MagSq(z) == z[1] * z[1] + z[2] * z[2]

Raised(error) == [ok |-> FALSE, error |-> error, kind |-> "None", sd |-> NoFrame]

Returned(sd) == [ok |-> TRUE, error |-> "", kind |-> "SpectralData", sd |-> sd]

\* _gain_spectral returning a frame of half the sample rate.
_gain_spectral_halfrate(sd, num, den) ==
    SpectralData(sd.stft, sd.sample_rate \div 2, sd.n_fft, sd.hop_length, sd.window,
                 sd.original_frames)

\* gain.py: sd.stft * factor, the factor being num / den.
_gain_spectral_of(sd, num, den) ==
    SpectralData(
        Tensor(sd.stft.shape,
               [i \in 1..Len(sd.stft.data) |->
                   <<(sd.stft.data[i][1] * num) \div den,
                     (sd.stft.data[i][2] * num) \div den>>]),
        sd.sample_rate, sd.n_fft, sd.hop_length, sd.window, sd.original_frames)

\* _gate with `<=` in place of `<`.
_gate_inclusive(sd, threshold_db) ==
    LET linear_sq == Pow10(threshold_db \div 10)
    IN  SpectralData(
            Tensor(sd.stft.shape,
                   [i \in 1..Len(sd.stft.data) |->
                       IF MagSq(sd.stft.data[i]) <= linear_sq THEN Zero
                       ELSE sd.stft.data[i]]),
            sd.sample_rate, sd.n_fft, sd.hop_length, sd.window, sd.original_frames)

\* gate.py: linear = 10.0 ** (threshold_db / 20.0);
\* new_stft[np.abs(new_stft) < linear] = 0.0.  The comparison is made on the
\* squares: |z|^2 < 10 ** (threshold_db / 10), threshold_db a multiple of 10.
_gate_of(sd, threshold_db) ==
    LET linear_sq == Pow10(threshold_db \div 10)
    IN  SpectralData(
            Tensor(sd.stft.shape,
                   [i \in 1..Len(sd.stft.data) |->
                       IF MagSq(sd.stft.data[i]) < linear_sq THEN Zero
                       ELSE sd.stft.data[i]]),
            sd.sample_rate, sd.n_fft, sd.hop_length, sd.window, sd.original_frames)

\* freq_hi=None
NoFreqHi == -1

\* filter.py lines 50-63 with `<` in place of `<=` for lowpass.
filter_mask_strict(sd, ftype, freq, freq_hi, k) ==
    IF ftype = "lowpass" THEN k * sd.sample_rate < freq * sd.n_fft
    ELSE IF ftype = "highpass" THEN k * sd.sample_rate >= freq * sd.n_fft
    ELSE IF ftype = "bandpass"
    THEN k * sd.sample_rate >= freq * sd.n_fft /\ k * sd.sample_rate <= freq_hi * sd.n_fft
    ELSE k * sd.sample_rate < freq * sd.n_fft \/ k * sd.sample_rate > freq_hi * sd.n_fft

\* filter.py lines 50-63: mask[k] for freqs = np.fft.rfftfreq(n_fft, 1 /
\* sample_rate), freqs[k] = k * sample_rate / n_fft; every comparison is
\* made on the products with n_fft.
filter_mask(sd, ftype, freq, freq_hi, k) ==
    IF ftype = "lowpass" THEN k * sd.sample_rate <= freq * sd.n_fft
    ELSE IF ftype = "highpass" THEN k * sd.sample_rate >= freq * sd.n_fft
    ELSE IF ftype = "bandpass"
    THEN k * sd.sample_rate >= freq * sd.n_fft /\ k * sd.sample_rate <= freq_hi * sd.n_fft
    ELSE k * sd.sample_rate < freq * sd.n_fft \/ k * sd.sample_rate > freq_hi * sd.n_fft

\* filter.py, _filter_spectral.  freqs has n_fft // 2 + 1 entries, and
\* stft[:, :, ~mask] = 0.0 needs as many as there are bins.
_filter_spectral_of(sd, ftype, freq, freq_hi) ==
    IF ftype \in {"bandpass", "bandstop"} /\ freq_hi = NoFreqHi
    THEN Raised("UsageError: --freq-hi is required")
    ELSE IF (sd.n_fft \div 2) + 1 # bins(sd)
    THEN Raised("IndexError: boolean index did not match")
    ELSE Returned(SpectralData(
             Tensor(sd.stft.shape,
                    [i \in 1..Len(sd.stft.data) |->
                        IF filter_mask(sd, ftype, freq, freq_hi, Unravel(sd.stft.shape, i)[3])
                        THEN sd.stft.data[i] ELSE Zero]),
             sd.sample_rate, sd.n_fft, sd.hop_length, sd.window,
             sd.original_frames))

\* _apply_filter without the test of freq_hi.
_apply_filter_unchecked(sample_rate, ftype, freq, freq_hi) ==
    [ok |-> TRUE, error |-> "", kind |-> "AudioData", sd |-> NoFrame]

\* filter.py, _apply_filter: the Butterworth filter of the time domain.  Only
\* whether it raises or returns samples is modelled: scipy's butter refuses
\* critical frequencies outside 0 < freq / nyq < 1 and band edges that do
\* not increase.
_apply_filter_of(sample_rate, ftype, freq, freq_hi) ==
    IF ftype \in {"bandpass", "bandstop"}
    THEN IF freq_hi = NoFreqHi
         THEN Raised("UsageError: --freq-hi is required")
         ELSE IF ~(0 < freq /\ freq < freq_hi /\ 2 * freq_hi < sample_rate)
         THEN Raised("ValueError: critical frequencies")
         ELSE [ok |-> TRUE, error |-> "", kind |-> "AudioData", sd |-> NoFrame]
    ELSE IF ~(0 < freq /\ 2 * freq < sample_rate)
    THEN Raised("ValueError: critical frequencies")
    ELSE [ok |-> TRUE, error |-> "", kind |-> "AudioData", sd |-> NoFrame]

\* The range with its end at one frame after its start, whatever noise_end.
noise_frames_single(sd, noise_start, noise_end) ==
    LET frame_start == Max(0, Min(RoundDiv(noise_start, 2), frames(sd) - 1))
    IN  <<frame_start, frame_start + 1>>

\* denoise.py lines 17-20: the frame range of the noise profile.  The times
\* are given in half hops: noise_start_s = noise_start * hop_length / (2 *
\* sample_rate), so that round() meets its ties.
noise_frames(sd, noise_start, noise_end) ==
    LET frame_start == Max(0, Min(RoundDiv(noise_start, 2), frames(sd) - 1))
        frame_end == Max(frame_start + 1, Min(RoundDiv(noise_end, 2), frames(sd)))
    IN  <<frame_start, frame_end>>

\* denoise.py, _denoise: spectral subtraction.  The values are on the axes,
\* so that magnitude and phase are exact.
_denoise_of(sd, noise_start, noise_end, oversubtract) ==
    LET range == noise_frames(sd, noise_start, noise_end)
        count == channels(sd) * (range[2] - range[1])
        region(b) == [j \in 0..(count - 1) |->
                         Magnitude(At(sd.stft, j \div (range[2] - range[1]),
                                      range[1] + (j % (range[2] - range[1])), b))]
        noise_profile == [b \in 0..(bins(sd) - 1) |-> SumTo(region(b), count - 1) \div count]
        subtracted(z, b) ==
            LET magnitude == Magnitude(z)
                new_mag == Max(magnitude - oversubtract * noise_profile[b], 0)
            IN  IF magnitude = 0 THEN Zero
                ELSE <<(z[1] * new_mag) \div magnitude, (z[2] * new_mag) \div magnitude>>
    IN  SpectralData(
            Tensor(sd.stft.shape,
                   [i \in 1..Len(sd.stft.data) |->
                       subtracted(sd.stft.data[i], Unravel(sd.stft.shape, i)[3])]),
            sd.sample_rate, sd.n_fft, sd.hop_length, sd.window, sd.original_frames)

\* factor = 2.0 ** (semitones / 12.0), as <<numerator, denominator>>, for
\* whole octaves.
semitone_factor(semitones) ==
    IF semitones = 12 THEN <<2, 1>>
    ELSE IF semitones = -12 THEN <<1, 2>>
    ELSE <<1, 1>>

\* transpose.py, _transpose: output bin b samples the input at b / factor,
\* linearly interpolated between bins, 0 beyond the last bin.
_transpose_of(sd, semitones) ==
    LET factor == semitone_factor(semitones)
        sampled(c, f, b) ==
            LET p == b * factor[2]
                j == p \div factor[1]
                r == p % factor[1]
            IN  IF p > (bins(sd) - 1) * factor[1] THEN Zero
                ELSE IF r = 0 THEN At(sd.stft, c, f, j)
                ELSE LET below == At(sd.stft, c, f, j)
                         above == At(sd.stft, c, f, j + 1)
                     IN  <<below[1] + ((above[1] - below[1]) * r) \div factor[1],
                           below[2] + ((above[2] - below[2]) * r) \div factor[1]>>
    IN  SpectralData(
            Tensor(sd.stft.shape,
                   [i \in 1..Len(sd.stft.data) |->
                       LET u == Unravel(sd.stft.shape, i)
                       IN  sampled(u[1], u[2], u[3])]),
            sd.sample_rate, sd.n_fft, sd.hop_length, sd.window, sd.original_frames)

\* interp1d(np.linspace(0, 1, F), y, axis=0)(np.linspace(0, 1, n))[k] for
\* channel c and bin b of tensor t with F >= 2 frames: linear between the
\* two source frames around k (F - 1) / (n - 1).
Resampled(t, c, k, b, n) ==
    LET d == IF n > 1 THEN n - 1 ELSE 1
        p == k * (t.shape[2] - 1)
        j == p \div d
        r == p % d
    IN  IF r = 0 THEN At(t, c, j, b)
        ELSE LET below == At(t, c, j, b)
                 above == At(t, c, j + 1, b)
             IN  <<below[1] + ((above[1] - below[1]) * r) \div d,
                   below[2] + ((above[2] - below[2]) * r) \div d>>

\* _stretch with int() in place of round()
_stretch_truncating(sd, num, den) ==
    LET new_frames == Max(1, (frames(sd) * num) \div den)
        shape == <<channels(sd), new_frames, bins(sd)>>
        new_original_frames == (sd.original_frames * num) \div den
    IN  SpectralData(
            Tensor(shape,
                   [i \in 1..Size(shape) |->
                       LET u == Unravel(shape, i)
                       IN  Resampled(sd.stft, u[1], u[2], u[3], new_frames)]),
            sd.sample_rate, sd.n_fft, sd.hop_length, sd.window, new_original_frames)

\* stretch.py, _stretch, the factor being num / den.
_stretch_of(sd, num, den) ==
    LET new_frames == Max(1, RoundDiv(frames(sd) * num, den))
        shape == <<channels(sd), new_frames, bins(sd)>>
        new_original_frames == RoundDiv(sd.original_frames * num, den)
    IN  SpectralData(
            Tensor(shape,
                   [i \in 1..Size(shape) |->
                       LET u == Unravel(shape, i)
                       IN  Resampled(sd.stft, u[1], u[2], u[3], new_frames)]),
            sd.sample_rate, sd.n_fft, sd.hop_length, sd.window, new_original_frames)

\* morph.py, _morph.  sd2_resampled[ch] = ... raises when sd2's bins cannot
\* be broadcast to sd1's, sd2.stft[ch] when sd2 has fewer channels than sd1;
\* nothing else of sd2 is compared with sd1.  alpha = np.linspace(blend_start,
\* blend_end, frames1) is carried as a numerator over frames1 - 1.
_morph_of(sd1, sd2, blend_start, blend_end) ==
    LET frames1 == frames(sd1)
        d == IF frames1 > 1 THEN frames1 - 1 ELSE 1
        alpha(f) == blend_start * d + (blend_end - blend_start) * f
        blended(c, f, b) ==
            LET mine == At(sd1.stft, c, f, b)
                theirs == Resampled(sd2.stft, c, f, IF bins(sd2) = 1 THEN 0 ELSE b, frames1)
            IN  <<((d - alpha(f)) * mine[1] + alpha(f) * theirs[1]) \div d,
                  ((d - alpha(f)) * mine[2] + alpha(f) * theirs[2]) \div d>>
    IN  IF bins(sd2) \notin {bins(sd1), 1}
        THEN Raised("ValueError: could not broadcast input array")
        ELSE IF channels(sd2) < channels(sd1)
        THEN Raised("IndexError: index out of bounds")
        ELSE Returned(SpectralData(
                 Tensor(sd1.stft.shape,
                        [i \in 1..Len(sd1.stft.data) |->
                            LET u == Unravel(sd1.stft.shape, i)
                            IN  blended(u[1], u[2], u[3])]),
                 sd1.sample_rate, sd1.n_fft, sd1.hop_length, sd1.window,
                 sd1.original_frames))

\* trim.py, _resolve_times, the times being numerators over one denominator;
\* an option that was not given has its flag FALSE.
_resolve_times(start, has_end, end, has_duration, duration, total) ==
    LET start1 == IF start < 0 THEN Max(0, total + start) ELSE start
        start2 == Max(0, Min(start1, total))
        end1 == IF has_duration THEN start2 + duration
                ELSE IF ~has_end THEN total
                ELSE IF end < 0 THEN Max(0, total + end)
                ELSE end
    IN  <<start2, Max(start2, Min(end1, total))>>

\* trim.py, _trim_spectral, start_s and end_s being numerators over den.
_trim_spectral_of(sd, start_s, end_s, den) ==
    LET sf0 == RoundDiv(start_s * sd.sample_rate, den * sd.hop_length)
        ef0 == RoundDiv(end_s * sd.sample_rate, den * sd.hop_length)
        sf == Max(0, Min(sf0, frames(sd)))
        ef == Max(sf, Min(ef0, frames(sd)))
        shape == <<channels(sd), ef - sf, bins(sd)>>
        new_orig == RoundDiv((end_s - start_s) * sd.sample_rate, den)
    IN  SpectralData(
            Tensor(shape,
                   [i \in 1..Size(shape) |->
                       LET u == Unravel(shape, i)
                       IN  At(sd.stft, u[1], sf + u[2], u[3])]),
            sd.sample_rate, sd.n_fft, sd.hop_length, sd.window, new_orig)

\* loop.py, _loop_spectral: np.tile along the frame axis, which refuses a
\* negative count.
_loop_spectral_of(sd, times) ==
    LET shape == <<channels(sd), frames(sd) * times, bins(sd)>>
    IN  IF times < 0
        THEN Raised("ValueError: negative dimensions are not allowed")
        ELSE Returned(SpectralData(
                 Tensor(shape,
                        [i \in 1..Size(shape) |->
                            LET u == Unravel(shape, i)
                            IN  At(sd.stft, u[1], u[2] % frames(sd), u[3])]),
                 sd.sample_rate, sd.n_fft, sd.hop_length, sd.window,
                 sd.original_frames * times))

\* ------------------------------------------------------------------------
\* One call of an operator of the library, through the tool's command
\* (main) or through the wrapper's method (Sound), on a frame of numbers.
\* ------------------------------------------------------------------------
NoOutput == [kind |-> "None", sd |-> NoFrame]

NoTool ==
    [op |-> "", entry |-> "", domain |-> "", sd |-> NoFrame, other |-> NoFrame,
     ftype |-> "", freq |-> 0, freq_hi |-> 0, threshold_db |-> 0,
     noise_start |-> 0, noise_end |-> 0, oversubtract |-> 0, factor |-> <<0, 1>>,
     semitones |-> 0, blend_start |-> 0, blend_end |-> 0,
     den |-> 1, start_s |-> 0, has_end |-> FALSE, end_s |-> 0,
     has_duration |-> FALSE, duration |-> 0, times |-> 0]

ToolsIdle ==
    /\ tpc = "idle"
    /\ tin = NoTool
    /\ tout = NoOutput
    /\ terr = ""
    /\ trange = <<0, 0>>

\* Values around the gate's thresholds: magnitudes squared 0, 1, 1, 10, 10,
\* 9, 100, 100, 100, 98, 113, 10000.
GateValues ==
    <<<<0, 0>>, <<1, 0>>, <<0, -1>>, <<3, 1>>, <<1, -3>>, <<3, 0>>, <<6, 8>>,
      <<-10, 0>>, <<0, 10>>, <<7, 7>>, <<8, -7>>, <<0, -100>>>>

\* The input frames.  Bin k is at 100 k Hz (200 k Hz with the other sample
\* rate); "levels" takes its values from GateValues, "axes" puts multiples
\* of 12 on the axes, anything else is a ramp of multiples of 60.
ToolFrame(values, shape, differ, seed) ==
    LET n_fft == 2 * (shape[3] - 1)
        value(i) ==
            IF values = "levels" THEN GateValues[((i + seed - 1) % Len(GateValues)) + 1]
            ELSE IF values = "axes" THEN Turn(12 * (((i + seed) % 3) + (i % 2)), i)
            ELSE <<60 * (i + seed), -60 * i>>
    IN  SpectralData(Tensor(shape, [i \in 1..Size(shape) |-> value(i)]),
                     (IF "sample_rate" \in differ THEN 200 ELSE 100) * n_fft,
                     n_fft,
                     IF "hop_length" \in differ THEN 2 ELSE 1,
                     "hann",
                     2 * shape[2] + 1)

Entries == {"main", "Sound"}

Factors == {<<-1, 1>>, <<0, 1>>, <<1, 5>>, <<1, 2>>, <<1, 1>>, <<3, 2>>, <<2, 1>>}

MorphDifferences ==
    {{}, {"n_fft"}, {"hop_length"}, {"channels"}, {"sample_rate"},
     {"n_fft", "hop_length", "channels", "sample_rate"}}

ToolCalls ==
    {[NoTool EXCEPT !.op = "gain", !.entry = e, !.sd = ToolFrame("ramp", <<2, 2, 3>>, {}, 0),
                    !.factor = k] :
        e \in Entries, k \in {<<0, 1>>, <<2, 1>>, <<-1, 1>>, <<1, 2>>}}
    \cup
    {[NoTool EXCEPT !.op = "gate", !.entry = e, !.sd = ToolFrame("levels", shape, {}, seed),
                    !.threshold_db = t] :
        e \in Entries, shape \in {<<1, 2, 3>>, <<2, 2, 3>>}, seed \in {0, 3},
        t \in {0, 10, 20}}
    \cup
    {[NoTool EXCEPT !.op = "filter", !.entry = e, !.domain = dom,
                    !.sd = ToolFrame("ramp", <<2, 2, 4>>, {}, 0),
                    !.ftype = ty, !.freq = lo, !.freq_hi = hi] :
        e \in Entries, dom \in {"spectral", "audio"},
        ty \in {"lowpass", "highpass", "bandpass", "bandstop"},
        lo \in {0, 100, 150}, hi \in {NoFreqHi, 100, 200, 250}}
    \cup
    {[NoTool EXCEPT !.op = "denoise", !.entry = e, !.sd = ToolFrame("axes", <<2, fr, 2>>, {}, 0),
                    !.noise_start = ns, !.noise_end = ne, !.oversubtract = over] :
        e \in Entries, fr \in {1, 3}, ns \in {-3, 0, 1, 3, 9}, ne \in {-2, 0, 1, 4, 5, 9},
        over \in {1, 2}}
    \cup
    {[NoTool EXCEPT !.op = "transpose", !.entry = e,
                    !.sd = ToolFrame("ramp", <<ch, 2, 3>>, {}, 0), !.semitones = st] :
        e \in Entries, ch \in {1, 2}, st \in {-12, 0, 12}}
    \cup
    {[NoTool EXCEPT !.op = "stretch", !.entry = e,
                    !.sd = ToolFrame("ramp", <<ch, fr, 2>>, {}, 0), !.factor = k] :
        e \in Entries, ch \in {1, 2}, fr \in {2, 3}, k \in Factors}
    \cup
    {[NoTool EXCEPT !.op = "morph", !.entry = e,
                    !.sd = ToolFrame("ramp", <<ch, fr, 3>>, {}, 0),
                    !.other = ToolFrame("ramp",
                                        <<IF "channels" \in differ THEN 3 - ch ELSE ch, fr2,
                                          IF "n_fft" \in differ THEN 4 ELSE 3>>,
                                        differ, 100),
                    !.blend_start = bs, !.blend_end = be] :
        e \in Entries, ch \in {1, 2}, fr \in {1, 2, 3}, fr2 \in {2, 3},
        differ \in MorphDifferences, bs \in {0, 1}, be \in {0, 1}}
    \cup
    \* times in units of half a sample: the frame lasts 14 of them
    {[NoTool EXCEPT !.op = "trim", !.entry = e,
                    !.sd = ToolFrame("ramp", <<1, 3, 3>>, {}, 0), !.den = 800,
                    !.start_s = t0, !.has_end = he, !.end_s = IF he THEN t1 ELSE 0,
                    !.has_duration = hd, !.duration = IF hd THEN 4 ELSE 0] :
        e \in Entries, t0 \in {-4, 0, 3, 6, 20}, he \in BOOLEAN,
        t1 \in {-2, 0, 2, 5, 14, 30}, hd \in BOOLEAN}
    \cup
    {[NoTool EXCEPT !.op = "loop", !.entry = e,
                    !.sd = ToolFrame("ramp", <<ch, 2, 2>>, {}, 0), !.times = n] :
        e \in Entries, ch \in {1, 2}, n \in {-1, 0, 1, 2, 3}}

InitTools ==
    /\ tpc = "call"
    /\ tin \in ToolCalls
    /\ tout = NoOutput
    /\ terr = ""
    /\ trange = <<0, 0>>

\* The call ends: it returned a value or raised.
Ends(got) ==
    /\ tpc' = IF got.ok THEN "done" ELSE "failed"
    /\ tout' = [kind |-> got.kind, sd |-> got.sd]
    /\ terr' = got.error
    /\ tin' = tin

\* gain.py main on a .spx input, Sound.gain with the spectral slot filled.
gain_call ==
    /\ tpc = "call" /\ tin.op = "gain"
    /\ Ends(Returned(_gain_spectral_of(tin.sd, tin.factor[1], tin.factor[2])))
    /\ UNCHANGED <<trange, svars, dvars, cvars, jvars>>

\* gate.py main, Sound.gate
gate_call ==
    /\ tpc = "call" /\ tin.op = "gate"
    /\ Ends(Returned(_gate_of(tin.sd, tin.threshold_db)))
    /\ UNCHANGED <<trange, svars, dvars, cvars, jvars>>

\* filter.py main, Sound.filter: _filter_spectral on a frame, _apply_filter
\* on samples.
filter_call ==
    /\ tpc = "call" /\ tin.op = "filter"
    /\ Ends(IF tin.domain = "spectral"
            THEN _filter_spectral_of(tin.sd, tin.ftype, tin.freq, tin.freq_hi)
            ELSE _apply_filter_of(tin.sd.sample_rate, tin.ftype, tin.freq, tin.freq_hi))
    /\ UNCHANGED <<trange, svars, dvars, cvars, jvars>>

\* denoise.py main, which refuses ns >= ne before it calls _denoise;
\* Sound.denoise, which calls _denoise.
denoise_call ==
    /\ tpc = "call" /\ tin.op = "denoise"
    /\ IF tin.entry = "main" /\ tin.noise_start >= tin.noise_end
       THEN /\ Ends(Raised("UsageError: --noise-start must be less than --noise-end"))
            /\ trange' = trange
       ELSE /\ Ends(Returned(_denoise_of(tin.sd, tin.noise_start, tin.noise_end,
                                         tin.oversubtract)))
            /\ trange' = noise_frames(tin.sd, tin.noise_start, tin.noise_end)
    /\ UNCHANGED <<svars, dvars, cvars, jvars>>

\* transpose.py main, Sound.transpose
transpose_call ==
    /\ tpc = "call" /\ tin.op = "transpose"
    /\ Ends(Returned(_transpose_of(tin.sd, tin.semitones)))
    /\ UNCHANGED <<trange, svars, dvars, cvars, jvars>>

\* stretch.py main, which refuses factor <= 0 before it loads the input;
\* Sound.stretch, which calls _stretch.
stretch_call ==
    /\ tpc = "call" /\ tin.op = "stretch"
    /\ Ends(IF tin.entry = "main" /\ tin.factor[1] <= 0
            THEN Raised("UsageError: FACTOR must be positive")
            ELSE Returned(_stretch_of(tin.sd, tin.factor[1], tin.factor[2])))
    /\ UNCHANGED <<trange, svars, dvars, cvars, jvars>>

\* morph.py main, which compares n_fft, hop_length, channels and sample_rate
\* before it calls _morph; Sound.morph, which calls _morph.
morph_call ==
    /\ tpc = "call" /\ tin.op = "morph"
    /\ Ends(IF tin.entry = "main" /\ tin.sd.n_fft # tin.other.n_fft
            THEN Raised("UsageError: Inputs must have the same n_fft")
            ELSE IF tin.entry = "main" /\ tin.sd.hop_length # tin.other.hop_length
            THEN Raised("UsageError: Inputs must have the same hop_length")
            ELSE IF tin.entry = "main" /\ channels(tin.sd) # channels(tin.other)
            THEN Raised("UsageError: Inputs must have the same channel count")
            ELSE IF tin.entry = "main" /\ tin.sd.sample_rate # tin.other.sample_rate
            THEN Raised("UsageError: Inputs must have the same sample rate")
            ELSE _morph_of(tin.sd, tin.other, tin.blend_start, tin.blend_end))
    /\ UNCHANGED <<trange, svars, dvars, cvars, jvars>>

\* ------------------------------------------------------------------------
\* One call of an analysis function on numbers: the harmonic mask of
\* decompose.py.  The call, its result and its error are held in tin, tout
\* and terr.
\* ------------------------------------------------------------------------
\* sd.duration, as a numerator over den (a multiple of the sample rate)
DurationOf(sd, den) == (sd.original_frames * den) \div sd.sample_rate

\* trim.py main on a .spx input, which resolves the times against the
\* duration before it calls _trim_spectral; Sound.trim with the spectral slot
\* filled, which replaces only a missing end.
trim_call ==
    /\ tpc = "call" /\ tin.op = "trim"
    /\ \E total \in {DurationOf(tin.sd, tin.den)} :
         Ends(IF tin.entry = "main" /\ tin.has_end /\ tin.has_duration
              THEN Raised("UsageError: --end and --duration are mutually exclusive")
              ELSE IF tin.entry = "main"
              THEN LET resolved == _resolve_times(tin.start_s, tin.has_end, tin.end_s,
                                                  tin.has_duration, tin.duration, total)
                   IN  Returned(_trim_spectral_of(tin.sd, resolved[1], resolved[2], tin.den))
              ELSE Returned(_trim_spectral_of(tin.sd, tin.start_s,
                                              IF tin.has_end THEN tin.end_s ELSE total,
                                              tin.den)))
    /\ UNCHANGED <<trange, svars, dvars, cvars, jvars>>

\* loop.py main on a .spx input, which refuses times < 1 before it loads the
\* input; Sound.loop with the spectral slot filled, which calls _loop_spectral.
loop_call ==
    /\ tpc = "call" /\ tin.op = "loop"
    /\ Ends(IF tin.entry = "main" /\ tin.times < 1
            THEN Raised("BadParameter: Must be at least 1")
            ELSE _loop_spectral_of(tin.sd, tin.times))
    /\ UNCHANGED <<trange, svars, dvars, cvars, jvars>>

\* np.linspace(0, nyquist, n) for a Nyquist frequency of 100 (n - 1) Hz
LinearBins(n) == [k \in 0..(n - 1) |-> 100 * k]

HarmonicCalls ==
    {[op |-> "harmonic_bins", fundamental_hz |-> f0, freq_bins |-> LinearBins(n), n |-> n,
      bin_window |-> w, max_harmonics |-> mh] :
        f0 \in {-100, 0, 40, 50, 100, 120, 150, 170, 250, 300, 301, 500, 700},
        n \in {4, 6}, w \in {0, 1, 2}, mh \in 0..(MaxHarmonics + 1)}

AnalysisCalls == HarmonicCalls

InitAnalysis ==
    /\ tpc = "call"
    /\ tin \in AnalysisCalls
    /\ tout = NoOutput
    /\ terr = ""
    /\ trange = <<0, 0>>

\* mask = _harmonic_bins(hz, freq_bins, bin_window, max_harmonics)
harmonic_bins_call ==
    /\ tpc = "call" /\ tin.op = "harmonic_bins"
    /\ tout' = [kind |-> "mask",
                value |-> _harmonic_bins(tin.fundamental_hz, tin.freq_bins, tin.n,
                                         tin.bin_window, tin.max_harmonics)]
    /\ tpc' = "done"
    /\ UNCHANGED <<tin, terr, trange, svars, dvars, cvars, jvars>>

\* ------------------------------------------------------------------------
\* tools/rms.py: the sliding-window level measurement, one pass of the loop
\* of _rms_track per step.  Samples are whole numbers of millionths of full
\* scale; a time is <<pos, sample_rate>>, pos / sample_rate seconds.  The
\* call is held in tin, the loop's variables and the rows in tout.
\* ------------------------------------------------------------------------
_SILENCE_DB == -96

\* ceil(10^(m / 10) * 10^4) for m = 0..9
TenthPowers == <<10000, 12590, 15849, 19953, 25119, 31623, 39811, 50119, 63096, 79433>>

RECURSIVE TenTo(_)
TenTo(a) == IF a = 0 THEN 1 ELSE 10 * TenTo(a - 1)

\* 20.0 * math.log10(linear) to the whole decibel below, for linear squared
\* = num / den square millionths, up to -71 dB; -121 stands for every level
\* under -120 dB.
Log20(num, den) ==
    -121 + Cardinality({e \in 0..49 :
                           TenTo(e \div 10) * TenthPowers[(e % 10) + 1] <= (num * 10000) \div den})

\* _db without its floor
_db_unclamped(num, den) ==
    IF num <= 0 THEN _SILENCE_DB ELSE Log20(num, den)

\* rms.py, _db, of the linear level whose square is num / den
_db(num, den) ==
    IF num <= 0 THEN _SILENCE_DB ELSE Max(_SILENCE_DB, Log20(num, den))

\* mono[i] times the channel count: samples.mean(axis=1), samples[:, 0]
MonoSum(samples, i) ==
    LET row == samples[i + 1]
    IN  SumTo([c \in 0..(Len(row) - 1) |-> row[c + 1]], Len(row) - 1)

\* One row of _rms_track: the segment mono[at : at + win_frames], its time,
\* its rms and its peak in decibels.
RmsRow(ad, at, win_frames) ==
    LET total == Len(ad.samples)
        ch == ad.channels
        n == Min(at + win_frames, total) - at
        sq == [k \in 0..(n - 1) |-> MonoSum(ad.samples, at + k) * MonoSum(ad.samples, at + k)]
    IN  CHOOSE row \in {<<<<at, ad.sample_rate>>, _db(sum_sq, n * ch * ch), _db(peak_sq, ch * ch)>> :
                           sum_sq \in {SumTo(sq, n - 1)},
                           peak_sq \in {p \in {sq[k] : k \in 0..(n - 1)} :
                                           \A k \in 0..(n - 1) : sq[k] <= p}} : TRUE

AudioOfKind(kind, total, ch) ==
    [samples |-> [i \in 1..total |->
                     [c \in 1..ch |->
                         IF kind = "silence" THEN 0
                         ELSE IF kind = "faint"
                         THEN (IF c > 1 THEN 0 ELSE IF i % 2 = 1 THEN 10 ELSE -16)
                         ELSE (IF c = 1 THEN 40 * i ELSE -3 * i)]],
     sample_rate |-> 4,
     channels |-> ch]

\* window and hop in seconds, as <<numerator, denominator>>; at 4 Hz they
\* are -4, 0, round(0.5) = 0, round(1.5) = 2 and 4 samples.
Seconds == {<<-1, 1>>, <<0, 1>>, <<1, 8>>, <<3, 8>>, <<1, 1>>}

RmsCalls ==
    {[op |-> "rms", audio |-> AudioOfKind(kind, total, ch), window |-> w,
      has_hop |-> hh, hop |-> IF hh THEN h ELSE <<0, 1>>] :
        kind \in {"silence", "faint", "ramp"}, total \in {0, 3, 5},
        ch \in {1, 2}, w \in {<<-1, 1>>, <<3, 8>>},
        hh \in BOOLEAN, h \in Seconds}

\* Nothing has been called yet.
InitRms == ToolsIdle

\* Sound.rms and rms.py main, called with some audio, window and hop:
\* hop_s = hop if hop is not None else window; _rms_track up to its loop.
rms_enter ==
    /\ tpc = "idle"
    /\ \E call \in RmsCalls :
         LET hop_s == IF call.has_hop THEN call.hop ELSE call.window
             sr == call.audio.sample_rate
         IN  /\ tin' = call
             /\ tout' = [kind |-> "rows",
                         win_frames |-> Max(1, RoundDiv(call.window[1] * sr, call.window[2])),
                         hop_frames |-> Max(1, RoundDiv(hop_s[1] * sr, hop_s[2])),
                         total |-> Len(call.audio.samples),
                         rows |-> <<>>,
                         at |-> 0]
    /\ tpc' = "loop"
    /\ UNCHANGED <<terr, trange, svars, dvars, cvars, jvars>>

\* while pos < total: one row, pos += hop_frames
rms_row ==
    /\ tpc = "loop"
    /\ tout.at < tout.total
    /\ tout' = [tout EXCEPT !.rows = Append(@, RmsRow(tin.audio, tout.at, tout.win_frames)),
                            !.at = @ + tout.hop_frames]
    /\ UNCHANGED <<tpc, tin, terr, trange, svars, dvars, cvars, jvars>>

\* return rows
rms_return ==
    /\ tpc = "loop"
    /\ ~(tout.at < tout.total)
    /\ tpc' = "done"
    /\ UNCHANGED <<tin, tout, terr, trange, svars, dvars, cvars, jvars>>

\* ------------------------------------------------------------------------
\* One run of a dual-format command (gain.py, fade.py, filter.py, loop.py,
\* normalize.py, reverse.py, trim.py, expand.py main): the formats are
\* resolved, the input is loaded, the tool's function is applied and the
\* result is handed to a writer.  The run is held in tin (the arguments and
\* the standard input), tout (what main has computed so far) and terr.
\* ------------------------------------------------------------------------
DualTools == {"gain", "fade", "filter", "loop", "normalize", "reverse", "trim", "expand"}

NoPath == [kind |-> "None", stem |-> "", suffix |-> ""]

Dash == [kind |-> "-", stem |-> "", suffix |-> ""]

File(stem, suffix) == [kind |-> "file", stem |-> stem, suffix |-> suffix]

\* Path(path).suffix.lower()
Lower(suffix) == IF suffix = ".SPX" THEN ".spx" ELSE suffix

\* _detect_format: None (needs sniffing) for no path and for '-'.
_detect_format(p) ==
    IF p.kind \in {"None", "-"} THEN "None"
    ELSE IF Lower(p.suffix) = ".spx" THEN "spectral" ELSE "audio"

\* _sniff_stream: header = stream.read(4); BytesIO(header + stream.read())
_sniff_stream(src) ==
    LET head == Read(src, 0, 4)
        rest == SubSeq(src, Len(head) + 1, Len(src))
    IN  [fmt |-> IF head = MAGIC THEN "spectral" ELSE "audio", buffered |-> head \o rest]

\* The frame and the samples the inputs hold.
CliFrame == CodecFrame(<<1, 1, 2>>, 1, "hann", 1)

\* audio.py write_pipe: the 16-byte header (SPAW, rate, channels, frames)
\* and one float32 per sample.
PIPE_MAGIC == <<Chr("S"), Chr("P"), Chr("A"), Chr("W")>>

AudioStream == PIPE_MAGIC \o PackU32(8000) \o PackU32(1) \o PackU32(2) \o PackF32(1) \o PackF32(2)

Stdins ==
    {<<>>, Encode(CliFrame), SubSeq(Encode(CliFrame), 1, 6), AudioStream,
     SubSeq(AudioStream, 1, 3), SubSeq(AudioStream, 1, 12)}

\* spectral._read_stream and audio.read_pipe on the buffered bytes, as far
\* as whether they return a value.
ReadsAs(fmt, src) ==
    IF fmt = "spectral"
    THEN IF Len(Read(src, 0, HEADER_LEN_SIZE)) < HEADER_LEN_SIZE
         THEN Raised("ValueError: Truncated .spx stream: missing header prefix")
         ELSE [Returned(NoFrame) EXCEPT !.kind = "SpectralData"]
    ELSE IF Len(Read(src, 0, 16)) < 16
         THEN Raised("ValueError: Incomplete pipe header")
         ELSE IF Read(src, 0, 4) # PIPE_MAGIC
         THEN Raised("ValueError: Invalid pipe magic")
         ELSE [Returned(NoFrame) EXCEPT !.kind = "AudioData"]

NoRun ==
    [fmt_in |-> "", fmt_out |-> "", sniffed |-> 0, buffered |-> <<>>, piped |-> FALSE,
     value |-> "None", writer |-> "", handed |-> "None", output |-> NoPath]

CliCalls ==
    {[op |-> "command", tool |-> t, input |-> i, output |-> o, stdin |-> s] :
        t \in DualTools,
        i \in {File("song", ".wav"), File("song", ".spx"), File("song", ".SPX"),
               File("song", "")},
        o \in {NoPath, Dash, File("out", ".wav"), File("out", ".spx"), File("out", ".flac")},
        s \in {<<>>}}
    \cup
    {[op |-> "command", tool |-> t, input |-> i, output |-> o, stdin |-> s] :
        t \in DualTools, i \in {NoPath, Dash},
        o \in {NoPath, Dash, File("out", ".wav"), File("out", ".spx")},
        s \in Stdins}

InitCli ==
    /\ tpc = "call"
    /\ tin \in CliCalls
    /\ tout = NoRun
    /\ terr = ""
    /\ trange = <<0, 0>>

\* main, "format": fmt_in from the extension or else from the first four
\* bytes of standard input, fmt_out from the output's extension or else
\* fmt_in.
resolve_formats ==
    /\ tpc = "call" /\ tin.op = "command"
    /\ LET byext == _detect_format(tin.input)
           sniff == _sniff_stream(tin.stdin)
           fmt_in == IF byext = "None" THEN sniff.fmt ELSE byext
           outext == _detect_format(tin.output)
       IN  tout' = [tout EXCEPT
                       !.fmt_in = fmt_in,
                       !.sniffed = IF byext = "None" THEN 1 ELSE 0,
                       !.piped = byext = "None",
                       !.buffered = IF byext = "None" THEN sniff.buffered ELSE <<>>,
                       !.fmt_out = IF outext = "None" THEN fmt_in ELSE outext,
                       !.output = tin.output]
    /\ tpc' = "load"
    /\ UNCHANGED <<tin, terr, trange, svars, dvars, cvars, jvars>>

\* main, "load": the buffered stream goes to the reader of fmt_in, a path
\* to the loader of fmt_in (a file holds what its extension says).
load_input ==
    /\ tpc = "load"
    /\ LET got == IF tout.piped THEN ReadsAs(tout.fmt_in, tout.buffered)
                  ELSE [Returned(NoFrame) EXCEPT
                           !.kind = IF tout.fmt_in = "spectral" THEN "SpectralData"
                                    ELSE "AudioData"]
       IN  /\ tpc' = IF got.ok THEN "apply" ELSE "failed"
           /\ terr' = got.error
           /\ tout' = [tout EXCEPT !.value = got.kind]
    /\ UNCHANGED <<tin, trange, svars, dvars, cvars, jvars>>

\* main, the tool's function: the spectral one on a frame, the audio one on
\* samples; each returns a value of the kind it was given.
apply_tool ==
    /\ tpc = "apply"
    /\ tpc' = "save"
    /\ tout' = [tout EXCEPT !.value = IF tout.fmt_in = "spectral" THEN "SpectralData"
                                      ELSE "AudioData"]
    /\ UNCHANGED <<tin, terr, trange, svars, dvars, cvars, jvars>>

\* main, "output path" and "save".  Path(None) raises; fmt_out selects the
\* writer; only a spectral result on its way to the audio writer is
\* converted.  The spectral writers read sd.n_fft, which samples lack.
save_result ==
    /\ tpc = "save"
    /\ IF tin.output.kind = "None" /\ tin.input.kind = "None"
       THEN /\ tpc' = "failed"
            /\ terr' = "TypeError: expected str, bytes or os.PathLike object, not NoneType"
            /\ tout' = tout
       ELSE LET \* with no OUTPUT the input's name, the tool's suffix added to its stem
                target == IF tin.output.kind = "None"
                          THEN IF tin.input.kind = "-" THEN File("-_tool", "")
                               ELSE File(tin.input.stem, tin.input.suffix)
                          ELSE tin.output
                handed == IF tout.fmt_out # "spectral" /\ tout.fmt_in = "spectral"
                          THEN "AudioData" ELSE tout.value
                writer == IF tout.fmt_out = "spectral" THEN "spectral" ELSE "audio"
                fits == writer = "audio" \/ handed = "SpectralData"
            IN  /\ tout' = [tout EXCEPT !.writer = writer, !.handed = handed,
                                        !.output = target]
                /\ tpc' = IF fits THEN "done" ELSE "failed"
                /\ terr' = IF fits THEN ""
                           ELSE "AttributeError: 'AudioData' object has no attribute 'n_fft'"
    /\ UNCHANGED <<tin, trange, svars, dvars, cvars, jvars>>

Init == InitSound /\ DecomposeIdle /\ CodecIdle /\ JoinIdle /\ ToolsIdle

Next ==
    \/ Construct
    \/ GetAudio
    \/ GetSpectral
    \/ gain
    \/ normalize
    \/ fade
    \/ reverse
    \/ trim
    \/ loop
    \/ filter
    \/ pad
    \/ transpose
    \/ gate
    \/ denoise
    \/ stretch
    \/ morph
    \/ decompose
    \/ pitch_track
    \/ rms
    \/ save

Spec == Init /\ [][Next]_vars

InitD == InitDecompose /\ InitSound /\ CodecIdle /\ JoinIdle /\ ToolsIdle

NextD ==
    \/ Detect
    \/ Component
    \/ Remainder
    \/ Rejoin

SpecDecompose == InitD /\ [][NextD]_vars

InitC == InitCodec /\ InitSound /\ DecomposeIdle /\ JoinIdle /\ ToolsIdle

NextC ==
    \/ Save
    \/ WritePrefix
    \/ WriteHeader
    \/ WriteBody
    \/ Flush
    \/ ReadPrefix
    \/ ReadHeader
    \/ ReadBody

SpecCodec == InitC /\ [][NextC]_vars

InitJ == InitJoin /\ InitSound /\ DecomposeIdle /\ CodecIdle /\ ToolsIdle

NextJ ==
    \/ Load
    \/ Sum
    \/ Write

SpecJoin == InitJ /\ [][NextJ]_vars

InitT == InitTools /\ InitSound /\ DecomposeIdle /\ CodecIdle /\ JoinIdle

NextT ==
    \/ gain_call
    \/ gate_call
    \/ filter_call
    \/ denoise_call
    \/ transpose_call
    \/ stretch_call
    \/ morph_call
    \/ trim_call
    \/ loop_call

SpecTools == InitT /\ [][NextT]_vars

InitA == InitAnalysis /\ InitSound /\ DecomposeIdle /\ CodecIdle /\ JoinIdle

NextA ==
    \/ harmonic_bins_call

SpecAnalysis == InitA /\ [][NextA]_vars

InitR == InitRms /\ InitSound /\ DecomposeIdle /\ CodecIdle /\ JoinIdle

NextR ==
    \/ rms_enter
    \/ rms_row
    \/ rms_return

\* The measurement is one sequential call: a step that can be taken is taken.
SpecRms == InitR /\ [][NextR]_vars /\ WF_vars(NextR)

InitK == InitCli /\ InitSound /\ DecomposeIdle /\ CodecIdle /\ JoinIdle

NextK ==
    \/ resolve_formats
    \/ load_input
    \/ apply_tool
    \/ save_result

SpecCli == InitK /\ [][NextK]_vars
\* ------------------------------------------------------------------------
\* Properties of the codec (SpecCodec)
\* ------------------------------------------------------------------------
Finished == cpc \in {"done", "failed"}

ShortPrefix == Len(stream) < HEADER_LEN_SIZE

BadMagic == ~ShortPrefix /\ SubSeq(stream, 1, 4) # MAGIC

ShortHeader ==
    /\ ~ShortPrefix
    /\ ~BadMagic
    /\ Len(stream) - HEADER_LEN_SIZE < UnpackU32(SubSeq(stream, 5, 8))

BadVersion ==
    /\ ~ShortPrefix
    /\ ~BadMagic
    /\ ~ShortHeader
    /\ header.ok
    /\ "version" \in DOMAIN header.dict
    /\ header.dict["version"] # <<FORMAT_VERSION, "">>

\* C6: decoding fails, returns no frame and has interpreted no byte of the
\* body whenever the stream holds fewer than 8 prefix bytes, its first four
\* bytes are not SPXF, fewer header bytes follow the prefix than it declares,
\* or the header's version is not 1; the error is that of the first of these
\* checks that fails.
C6_MalformedStreamFails ==
    Finished =>
        /\ ShortPrefix => cerr = "Truncated .spx stream"
        /\ BadMagic => cerr = "Not a .spx file"
        /\ ShortHeader => cpc = "failed" /\ cerr \notin {"Truncated .spx stream", "Not a .spx file"}
        /\ BadVersion => cerr = "Unsupported .spx version"
        /\ (ShortPrefix \/ BadMagic \/ ShortHeader \/ BadVersion) =>
               /\ cpc = "failed"
               /\ decoded = NoFrame
               /\ interpreted = 0

DeclaredFloats ==
    2 * header.dict["channels"][1] * header.dict["frames"][1] * header.dict["bins"][1]

\* C7: decoding succeeds only if the bytes from the end of the header to the
\* end of the stream are exactly channels*frames*bins*2 32-bit floats, the
\* three counts being the ones the header declares.
C7_BodyHoldsDeclaredFloats ==
    cpc = "done" =>
        /\ interpreted = FloatSize * DeclaredFloats
        /\ Len(stream) - (pos - interpreted) = FloatSize * DeclaredFloats

\* C8: a frame written by save and read by load, or written by write_pipe
\* and read by read_pipe, comes back with the same sample_rate, n_fft,
\* hop_length, window, original_frames, the same shape and the same real and
\* imaginary part at every (channel, frame, bin).
C8_EncodeDecodeIdentity ==
    (Finished /\ via \in {"file", "pipe"}) =>
        /\ cpc = "done"
        /\ decoded.sample_rate = cframe.sample_rate
        /\ decoded.n_fft = cframe.n_fft
        /\ decoded.hop_length = cframe.hop_length
        /\ decoded.window = cframe.window
        /\ decoded.original_frames = cframe.original_frames
        /\ <<channels(decoded), frames(decoded), bins(decoded)>>
               = <<channels(cframe), frames(cframe), bins(cframe)>>
        /\ \A c \in 0..(channels(cframe) - 1), f \in 0..(frames(cframe) - 1),
              b \in 0..(bins(cframe) - 1) :
               At(decoded.stft, c, f, b) = At(cframe.stft, c, f, b)

C8_Witness ==
    /\ cpc = "done"
    /\ via = "pipe"
    /\ cframe.stft.shape = <<1, 2, 3>>
    /\ At(decoded.stft, 0, 1, 2) = <<11, -12>>

\* C9: a frame returned by the decoder has bins = n_fft \div 2 + 1.
C9_DecodedBinsMatchFftSize ==
    cpc = "done" => bins(decoded) = (decoded.n_fft \div 2) + 1
\* ------------------------------------------------------------------------
\* Properties of join (SpecJoin)
\* ------------------------------------------------------------------------
TestedFields == <<"sample_rate", "n_fft", "hop_length", "window", "channels">>

FieldOf(sd, field) ==
    IF field = "sample_rate" THEN <<sd.sample_rate, "">>
    ELSE IF field = "n_fft" THEN <<sd.n_fft, "">>
    ELSE IF field = "hop_length" THEN <<sd.hop_length, "">>
    ELSE IF field = "window" THEN <<0, sd.window>>
    ELSE <<sd.stft.shape[1], "">>

Differing(k) ==
    {j \in 1..Len(TestedFields) :
        FieldOf(jin[1], TestedFields[j]) # FieldOf(jin[k], TestedFields[j])}

Mismatching == {k \in 2..Len(jin) : Differing(k) # {}}

\* C10: when some input of join differs from input 0 in sample_rate, n_fft,
\* hop_length, window or channel count, join fails with the compatibility
\* error, which names the lowest-numbered such input and exactly the fields
\* in which it differs; nothing has been summed and nothing written, and no
\* input after that one has been loaded.
C10_JoinNamesFirstMismatch ==
    /\ (jpc \in {"failed", "written"} /\ Mismatching # {}) =>
           LET first == CHOOSE k \in Mismatching : \A m \in Mismatching : k <= m
           IN  /\ jpc = "failed"
               /\ jerr.kind = "incompatible"
               /\ jerr.idx = first - 1
               /\ {jerr.fields[j] : j \in 1..Len(jerr.fields)}
                      = {TestedFields[j] : j \in Differing(first)}
               /\ Len(parts) = first - 1
    /\ (jerr.kind = "incompatible" \/ Mismatching # {}) =>
           /\ summed = 0
           /\ jsum = NoFrame
           /\ jout = <<>>

C10_Witness ==
    /\ jpc = "failed"
    /\ Len(jin) = 3
    /\ Mismatching = {2, 3}
    /\ jerr.idx = 1
    /\ jerr.fields = <<"n_fft", "window">>
    /\ Differing(3) = {1}

FrameCounts == {frames(jin[k]) : k \in 1..Len(jin)}

Greatest(S) == CHOOSE m \in S : \A x \in S : x <= m

\* Element (c, f, b) of input k once it is zero-padded at its end.
PaddedAt(k, c, f, b) ==
    IF f < frames(jin[k]) THEN At(jin[k].stft, c, f, b) ELSE Zero

RECURSIVE PaddedSum(_, _, _, _)
PaddedSum(k, c, f, b) ==
    IF k = 0 THEN Zero ELSE Add(PaddedSum(k - 1, c, f, b), PaddedAt(k, c, f, b))

JoinReturned == jpc \in {"write", "written"}

\* C11: when the frame counts of compatible inputs differ, a strict join
\* fails with the frame-count error and produces no result and no output; a
\* non-strict join returns the element-wise sum of the inputs, each
\* zero-padded at its end to the greatest frame count.  Every join that
\* returns has the greatest input frame count as its frame count and the
\* greatest input original_frames as its original_frames.
C11_JoinPadsToLongest ==
    /\ (jpc \in {"failed", "write", "written"} /\ Mismatching = {}
            /\ Cardinality(FrameCounts) > 1) =>
           IF strict
           THEN /\ jpc = "failed"
                /\ jerr.kind = "Frame count mismatch"
                /\ jsum = NoFrame
                /\ summed = 0
                /\ jout = <<>>
           ELSE /\ JoinReturned
                /\ jerr = NoError
                /\ \A c \in 0..(channels(jsum) - 1), f \in 0..(frames(jsum) - 1),
                      b \in 0..(bins(jsum) - 1) :
                       At(jsum.stft, c, f, b) = PaddedSum(Len(jin), c, f, b)
    /\ JoinReturned =>
           /\ frames(jsum) = Greatest(FrameCounts)
           /\ channels(jsum) = channels(jin[1])
           /\ bins(jsum) = bins(jin[1])
           /\ Len(jsum.stft.data) = Size(jsum.stft.shape)
           /\ jsum.original_frames
                  = Greatest({jin[k].original_frames : k \in 1..Len(jin)})

\* A non-strict join of three inputs of 1, 2 and 1 frames has returned.
C11_Witness ==
    /\ jpc = "written"
    /\ ~strict
    /\ Len(jin) = 3
    /\ frames(jin[1]) = 1 /\ frames(jin[2]) = 2 /\ frames(jin[3]) = 1
    /\ frames(jsum) = 2
    /\ At(jsum.stft, 0, 1, 0) = At(jin[2].stft, 0, 1, 0)
    /\ jsum.original_frames = jin[3].original_frames

\* The strict join of inputs of differing frame counts has failed.
C11_WitnessStrict ==
    /\ jpc = "failed"
    /\ strict
    /\ Mismatching = {}
    /\ Cardinality(FrameCounts) > 1
\* ------------------------------------------------------------------------
\* Properties of decompose (SpecDecompose)
\* ------------------------------------------------------------------------
BinsOf == 0..(bins(din.sd) - 1)

\* The bins fundamental i asks for, before the claimed ones are taken out.
Wanted(i) ==
    IF din.no_harmonics
    THEN _fundamental_only_bins(fundamentals[i][1], freq_bins_of(din.sd), bins(din.sd),
                                din.bin_window)
    ELSE _harmonic_bins(fundamentals[i][1], freq_bins_of(din.sd), bins(din.sd),
                        din.bin_window, din.max_harmonics)

\* C1: the fundamentals are processed in ascending frequency; after any
\* number of them, no bin is in the masks of two components, a bin wanted by
\* several fundamentals is in the mask of the lowest of them only, and each
\* component's tensor is the input on its mask and zero elsewhere.
C1_MasksDisjointLowerWins ==
    /\ \A i, j \in 1..Len(fundamentals) : i < j => fundamentals[i][1] < fundamentals[j][1]
    /\ \A i, j \in 1..Len(masks) : i < j => \A b \in BinsOf : ~(masks[i][b] /\ masks[j][b])
    /\ \A i \in 1..Len(masks) : \A wanted \in {Wanted(i)} : \A b \in BinsOf :
           /\ masks[i][b] => wanted[b]
           /\ (wanted[b] /\ ~masks[i][b]) => \E h \in 1..(i - 1) : masks[h][b]
           /\ (wanted[b] /\ masks[i][b]) => \A h \in 1..Len(masks) : h # i => ~masks[h][b]
    /\ \A i \in 1..Len(masks) : \A b \in BinsOf :
           \A c \in 0..(channels(din.sd) - 1), f \in 0..(frames(din.sd) - 1) :
               At(results[i].stft, c, f, b)
                   = IF masks[i][b] THEN At(din.sd.stft, c, f, b) ELSE Zero

C1_Witness ==
    /\ Len(masks) = 2
    /\ \E w1 \in {Wanted(1)}, w2 \in {Wanted(2)} :
           \E b \in BinsOf : w1[b] /\ w2[b] /\ masks[1][b] /\ ~masks[2][b]
    /\ \E b \in BinsOf : masks[2][b]

\* C2: when decompose finds a component and writes the remainder, every bin
\* is in exactly one of the component masks and the remainder mask, and the
\* strict join of the components and the remainder is the input: the same
\* tensor, frame count, original_frames and transform parameters.
C2_DecomposeJoinReconstructs ==
    /\ (dpc \in {"done", "joined"} /\ ~din.no_remainder /\ masks # <<>>) =>
           /\ Len(results) = Len(masks) + 1
           /\ \A b \in BinsOf :
                  Cardinality({i \in 1..Len(masks) : masks[i][b]})
                      + (IF claimed[b] THEN 0 ELSE 1) = 1
    /\ (dpc = "joined" /\ ~din.no_remainder /\ masks # <<>>) =>
           /\ joined.ok
           /\ joined.sd.stft.shape = din.sd.stft.shape
           /\ \A i \in 1..Size(din.sd.stft.shape) :
                  joined.sd.stft.data[i] = din.sd.stft.data[i]
           /\ joined.sd.original_frames = din.sd.original_frames
           /\ joined.sd = din.sd

C2_Witness ==
    /\ dpc = "joined"
    /\ ~din.no_remainder
    /\ Len(masks) = 2
    /\ joined.ok
    /\ \E b \in BinsOf : ~claimed[b]
    /\ \E b \in BinsOf : masks[2][b]


\* C14: a decomposition that accepts no fundamental ends, at every entry
\* point, as an ordinary return of an empty component list: it neither
\* raises nor terminates the program.
C14_NoFundamentalsIsEmptyResult ==
    (dpc \notin {"idle", "start"} /\ fundamentals = <<>>) =>
        /\ dpc = "done"
        /\ results = <<>>

\* _find_fundamentals has just returned: no mask has been cut yet.
Detected == dpc \notin {"idle", "start"} /\ masks = <<>>

\* The spectrum this run searched for peaks: db_search of _find_fundamentals.
Searched ==
    CHOOSE db_search \in
        {[b \in 0..(bins(din.sd) - 1) |->
             IF fb[b] < din.min_freq THEN NegInf ELSE Decibel(mean_mag[b])] :
         mean_mag \in {_mean_magnitude(din.sd)}, fb \in {freq_bins_of(din.sd)}} : TRUE

\* The candidates the sieve of this run was given.
KeptCandidates ==
    CHOOSE cands \in
        {candidates_of(db_search, fb, bins(din.sd), din.max_notes, din.prominence) :
         db_search \in {Searched}, fb \in {freq_bins_of(din.sd)}} : TRUE

\* f is within 5% of an integer multiple n >= 2, n = round(f / f0), of f0.
NearMultiple(f, f0) ==
    \E n \in 2..((f \div f0) + 1) :
        /\ n = RoundDiv(f, f0)
        /\ 20 * AbsInt(f - n * f0) < n * f0

Accepted == {fundamentals[j] : j \in 1..Len(fundamentals)}

\* C15: the kept candidates are sieved in ascending frequency; a candidate
\* is rejected exactly when some fundamental accepted before it (a lower
\* one) has it within 5% of an integer multiple n >= 2, and is accepted
\* otherwise.  The accepted fundamentals are in strictly ascending
\* frequency and none is within 5% of such a multiple of a lower one.
\* Stated of the list _find_fundamentals returned, which no later step
\* changes.
C15_SieveRejectsHarmonics ==
    Detected =>
        \A cands \in {KeptCandidates} :
            /\ \A i, j \in 1..Len(cands) : i < j => cands[i][1] < cands[j][1]
            /\ Accepted \subseteq {cands[i] : i \in 1..Len(cands)}
            /\ \A i \in 1..Len(cands) :
                   (cands[i] \notin Accepted) <=>
                       \E a \in Accepted :
                           a[1] < cands[i][1] /\ NearMultiple(cands[i][1], a[1])
            /\ \A j, k \in 1..Len(fundamentals) :
                   j < k => /\ fundamentals[j][1] < fundamentals[k][1]
                            /\ ~NearMultiple(fundamentals[k][1], fundamentals[j][1])

\* A run whose sieve rejected a candidate as a harmonic of the fundamental
\* it had accepted.
C15_Witness ==
    /\ Detected
    /\ Len(fundamentals) = 1
    /\ \E cands \in {KeptCandidates} :
           /\ Len(cands) = 2
           /\ cands[1] \in Accepted
           /\ cands[2] \notin Accepted

\* A run whose sieve accepted 300 Hz and 500 Hz.
C15_WitnessBoth ==
    /\ Detected
    /\ Len(fundamentals) = 2
    /\ fundamentals[1][1] = 300
    /\ fundamentals[2][1] = 500
\* ------------------------------------------------------------------------
\* Properties of the wrapper (Spec)
\* ------------------------------------------------------------------------
Operators == DomainPreserving \cup SpectralOnly

\* C3: for each wrapper the forward transform has run at most once and the
\* inverse transform at most once, and a call on a wrapper whose slot was
\* already filled leaves the slot as it was and runs no transform for it.
C3_TransformsAtMostOnce ==
    /\ \A i \in Instances : fwd[i] <= 1 /\ inv[i] <= 1
    /\ (last.op # "none" /\ last.before._audio # None) =>
           sounds[last.recv]._audio = last.before._audio /\ last.inv = 0
    /\ (last.op \notin {"none", "morph"} /\ last.before._spectral # None) =>
           sounds[last.recv]._spectral = last.before._spectral /\ last.fwd = 0

\* C4 as stated: every operator call returns a wrapper that is not the
\* receiver and leaves the receiver's two slots and name as they were.
C4_ReceiverNeverMutated ==
    last.op \in Operators =>
        /\ last.result # 0 => last.result # last.recv
        /\ sounds[last.recv] = last.before

\* C4: every operator call that returns a wrapper returns a new one; the
\* receiver keeps its name and every slot that was filled; a
\* domain-preserving operator leaves the receiver wholly as it was, and a
\* spectral-only operator fills an empty spectral slot of the receiver with
\* the forward transform of its audio and changes nothing else.
C4_ReceiverOnlyMemoizes ==
    last.op \in Operators =>
        LET before == last.before
            after == sounds[last.recv]
        IN  /\ last.result # 0 => last.result # last.recv /\ last.result = Len(sounds)
            /\ after._name = before._name
            /\ after._audio = before._audio
            /\ before._spectral # None => after._spectral = before._spectral
            /\ last.op \in DomainPreserving => after = before
            /\ (last.op \in SpectralOnly /\ before._spectral = None) =>
                   after._spectral = compute_stft(before._audio)

C4_Witness ==
    /\ last.op = "transpose"
    /\ last.before._spectral = None
    /\ sounds[last.recv]._spectral = compute_stft(last.before._audio)
    /\ last.result = 2

\* C5: a domain-preserving operator works on a slot that was filled before
\* the call, returns its result in that domain, and runs neither the forward
\* nor the inverse transform.
C5_DomainPreservingNoTransform ==
    (last.op \in DomainPreserving /\ last.result # 0) =>
        /\ last.fwd = 0
        /\ last.inv = 0
        /\ sounds[last.result]._spectral # None => last.before._spectral # None
        /\ sounds[last.result]._audio # None => last.before._audio # None

\* ------------------------------------------------------------------------
\* Properties of the operator library (SpecTools)
\* ------------------------------------------------------------------------
Called(op) == tin.op = op /\ tpc \in {"done", "failed"}

MismatchErrors ==
    {"UsageError: Inputs must have the same n_fft",
     "UsageError: Inputs must have the same hop_length",
     "UsageError: Inputs must have the same channel count",
     "UsageError: Inputs must have the same sample rate"}

MorphMismatch ==
    \/ tin.sd.n_fft # tin.other.n_fft
    \/ tin.sd.hop_length # tin.other.hop_length
    \/ channels(tin.sd) # channels(tin.other)
    \/ tin.sd.sample_rate # tin.other.sample_rate

\* C12: morph of two frames that differ in n_fft, hop_length, channel count
\* or sample_rate fails with a parameter-mismatch error and returns nothing,
\* through the command and through the wrapper's morph alike.
C12_MorphRejectsMismatch ==
    (Called("morph") /\ MorphMismatch) =>
        /\ tpc = "failed"
        /\ terr \in MismatchErrors
        /\ tout = NoOutput

\* C13: stretch with a factor <= 0 fails with a parameter error and returns
\* no frame, through the command and through the wrapper's stretch alike.
C13_StretchRejectsNonPositive ==
    (Called("stretch") /\ tin.factor[1] <= 0) =>
        /\ tpc = "failed"
        /\ terr = "UsageError: FACTOR must be positive"
        /\ tout = NoOutput

\* t^2 for t = 10^(threshold_db / 20)
ThresholdSq == IF tin.threshold_db = 0 THEN 1 ELSE IF tin.threshold_db = 10 THEN 10 ELSE 100

FreqOfBin(k) == (k * tin.sd.sample_rate) \div tin.sd.n_fft

KeptBy(ftype, k) ==
    IF ftype = "lowpass" THEN FreqOfBin(k) <= tin.freq
    ELSE IF ftype = "highpass" THEN FreqOfBin(k) >= tin.freq
    ELSE IF ftype = "bandpass" THEN tin.freq <= FreqOfBin(k) /\ FreqOfBin(k) <= tin.freq_hi
    ELSE FreqOfBin(k) < tin.freq \/ FreqOfBin(k) > tin.freq_hi

SpectralFilterReturned == Called("filter") /\ tin.domain = "spectral" /\ tpc = "done"

\* C17: the spectral filter returns the input with bin k (at k * sample_rate
\* / n_fft Hz) unchanged where the type keeps it (lowpass <= freq, highpass
\* >= freq, bandpass freq..freq_hi inclusive, bandstop below freq or above
\* freq_hi) and zero in every channel and frame elsewhere; bandpass and
\* bandstop with the same edges keep complementary sets of bins.
C17_FilterKeepsStatedBins ==
    SpectralFilterReturned =>
        /\ (tin.sd.sample_rate * (bins(tin.sd) - 1)) % tin.sd.n_fft = 0
        /\ tout.sd.stft.shape = tin.sd.stft.shape
        /\ \A c \in 0..(channels(tin.sd) - 1), f \in 0..(frames(tin.sd) - 1),
              k \in 0..(bins(tin.sd) - 1) :
               At(tout.sd.stft, c, f, k) =
                   IF KeptBy(tin.ftype, k) THEN At(tin.sd.stft, c, f, k) ELSE Zero
        /\ tin.freq_hi # NoFreqHi =>
               \A pass \in {_filter_spectral_of(tin.sd, "bandpass", tin.freq, tin.freq_hi)},
                  stop \in {_filter_spectral_of(tin.sd, "bandstop", tin.freq, tin.freq_hi)} :
                   \A i \in 1..Len(tin.sd.stft.data) :
                       \/ /\ pass.sd.stft.data[i] = tin.sd.stft.data[i]
                          /\ stop.sd.stft.data[i] = Zero
                       \/ /\ pass.sd.stft.data[i] = Zero
                          /\ stop.sd.stft.data[i] = tin.sd.stft.data[i]

\* A bandstop from 100 Hz to 200 Hz returned bins 0 and 3 and zeroed bins 1
\* and 2, which lie on its edges.
C17_Witness ==
    /\ SpectralFilterReturned
    /\ tin.ftype = "bandstop" /\ tin.freq = 100 /\ tin.freq_hi = 200
    /\ At(tout.sd.stft, 1, 1, 0) = At(tin.sd.stft, 1, 1, 0)
    /\ At(tout.sd.stft, 1, 1, 1) = Zero
    /\ At(tout.sd.stft, 1, 1, 2) = Zero
    /\ At(tout.sd.stft, 1, 1, 3) = At(tin.sd.stft, 1, 1, 3)
    /\ At(tin.sd.stft, 1, 1, 1) # Zero

\* What the filter does with the call's arguments but this freq_hi.
FilterWith(freq_hi) ==
    IF tin.domain = "spectral"
    THEN _filter_spectral_of(tin.sd, tin.ftype, tin.freq, freq_hi)
    ELSE _apply_filter_of(tin.sd.sample_rate, tin.ftype, tin.freq, freq_hi)

\* C18: in the time domain and in the spectral domain, a bandpass or
\* bandstop filter without freq_hi fails with the parameter error and
\* returns nothing; a lowpass or highpass filter never fails for want of
\* freq_hi, and does the same with and without one.
C18_BandFiltersNeedFreqHi ==
    Called("filter") =>
        /\ (tin.ftype \in {"bandpass", "bandstop"} /\ tin.freq_hi = NoFreqHi) =>
               /\ tpc = "failed"
               /\ terr = "UsageError: --freq-hi is required"
               /\ tout = NoOutput
        /\ (tin.ftype \in {"bandpass", "bandstop"} /\ tin.freq_hi # NoFreqHi) =>
               terr # "UsageError: --freq-hi is required"
        /\ tin.ftype \in {"lowpass", "highpass"} =>
               /\ terr # "UsageError: --freq-hi is required"
               /\ \A got \in {FilterWith(NoFreqHi)} :
                      /\ got.ok = (tpc = "done")
                      /\ got.error = terr
                      /\ [kind |-> got.kind, sd |-> got.sd] = tout

\* A bandstop filter of samples was called without freq_hi and failed.
C18_Witness ==
    /\ Called("filter")
    /\ tin.domain = "audio"
    /\ tin.ftype = "bandstop"
    /\ tin.freq_hi = NoFreqHi
    /\ tpc = "failed"

\* A lowpass filter of a frame was called with freq_hi and returned.
C18_WitnessLowpass ==
    /\ SpectralFilterReturned
    /\ tin.ftype = "lowpass"
    /\ tin.freq_hi = 200

\* n clamped into lo..hi
Clamped(n, lo, hi) == IF n < lo THEN lo ELSE IF n > hi THEN hi ELSE n

C20_OperatorsKeepParameters ==
    (/\ tpc = "done"
     /\ tin.op \in {"gain", "gate", "denoise", "filter", "transpose", "stretch", "morph"}
     /\ tout.kind = "SpectralData") =>
        /\ tout.sd.sample_rate = tin.sd.sample_rate
        /\ tout.sd.n_fft = tin.sd.n_fft
        /\ tout.sd.hop_length = tin.sd.hop_length
        /\ tout.sd.window = tin.sd.window
        /\ channels(tout.sd) = channels(tin.sd)
        /\ bins(tout.sd) = bins(tin.sd)
        /\ Len(tout.sd.stft.data) = Size(tout.sd.stft.shape)

\* morph returned a frame for an other of another sample rate and hop
\* length.
C20_Witness ==
    /\ Called("morph")
    /\ tpc = "done"
    /\ tout.kind = "SpectralData"
    /\ tin.other.sample_rate # tin.sd.sample_rate
    /\ tout.sd.sample_rate = tin.sd.sample_rate

\* stretch returned a frame of another frame count.
C20_WitnessStretch ==
    /\ Called("stretch")
    /\ tpc = "done"
    /\ frames(tout.sd) # frames(tin.sd)

\* ------------------------------------------------------------------------
\* Frame counts of stretch (SpecTools)
\* ------------------------------------------------------------------------
\* r is round(n * num / den) as Python rounds: the nearest integer, the even
\* one of the two on a tie.
IsRound(r, n, num, den) ==
    /\ 2 * AbsInt(r * den - n * num) <= den
    /\ (2 * AbsInt(r * den - n * num) = den) => r % 2 = 0

StretchReturned ==
    /\ Called("stretch")
    /\ tpc = "done"
    /\ tin.factor[1] > 0

C21_WitnessDoubled ==
    /\ StretchReturned
    /\ tin.factor = <<2, 1>>
    /\ frames(tin.sd) = 3
    /\ frames(tout.sd) = 6
    /\ tout.sd.original_frames = 2 * tin.sd.original_frames

C21_WitnessTie ==
    /\ StretchReturned
    /\ tin.factor = <<3, 2>>
    /\ frames(tin.sd) = 3
    /\ frames(tout.sd) = 4

\* ------------------------------------------------------------------------
\* The pipe writer (SpecCodec)
\* ------------------------------------------------------------------------
\* The bytes of s before position n.
Upto(s, n) == SubSeq(s, 1, Min(n, Len(s)))

HeaderBytes == Len(JsonDumps(_header_dict(cframe)))

\* The stream starts with the magic, the little-endian length of the header
\* and a header of that length, and the body follows.
WellFramed ==
    /\ SubSeq(stream, 1, 4) = MAGIC
    /\ \A i \in 5..8 : stream[i][1] = "u8" /\ stream[i][3] \in 0..255
    /\ UnpackU32(SubSeq(stream, 5, 8)) = HeaderBytes
    /\ SubSeq(stream, HEADER_LEN_SIZE + 1, HEADER_LEN_SIZE + HeaderBytes)
           = JsonDumps(_header_dict(cframe))
    /\ SubSeq(stream, HEADER_LEN_SIZE + HeaderBytes + 1, Len(stream))
           = _stft_to_bytes(cframe)
    /\ Len(stream) = HEADER_LEN_SIZE + HeaderBytes
                         + 2 * FloatSize * Size(cframe.stft.shape)

\* C22: write_pipe emits the bytes save emits for the same frame (prefix
\* with the magic and the header's length, header, body) in that order, and
\* flushes after the last body byte has been written and not before.
C22_PipeWritesFileBytesThenFlushes ==
    /\ (via = "file" /\ cpc # "write") => (stream = Encode(cframe) /\ WellFramed)
    /\ via = "pipe" =>
          /\ cpc = "write" => stream = <<>>
          /\ cpc = "write_header" => stream = Upto(Encode(cframe), HEADER_LEN_SIZE)
          /\ cpc = "write_body" =>
                 stream = Upto(Encode(cframe), HEADER_LEN_SIZE + HeaderBytes)
          /\ cpc \notin {"write", "write_header", "write_body"} =>
                 (stream = Encode(cframe) /\ WellFramed)
          /\ cpc \in {"write", "write_header", "write_body", "flush"} => ~flushed
          /\ cpc \notin {"write", "write_header", "write_body", "flush"} => flushed

\* The pipe writer has written a frame of two channels and flushed.
C22_Witness ==
    /\ via = "pipe"
    /\ cpc = "read"
    /\ pos = 0
    /\ flushed
    /\ cframe.stft.shape = <<2, 2, 2>>
    /\ Len(stream) = HEADER_LEN_SIZE + HeaderBytes + 64

\* The body has been written and the stream not yet flushed.
C22_WitnessUnflushed ==
    /\ via = "pipe"
    /\ cpc = "flush"
    /\ ~flushed
    /\ stream = Encode(cframe)
    /\ frames(cframe) > 0

\* ------------------------------------------------------------------------
\* Properties of the analysis functions (SpecAnalysis)
\* ------------------------------------------------------------------------
Nyquist == tin.freq_bins[tin.n - 1]

\* Bin k is the bin nearest to the frequency t, the lower one when t is
\* midway between two bins.
IsNearestBin(k, t) ==
    /\ \A j \in 0..(tin.n - 1) :
          AbsInt(tin.freq_bins[k] - t) <= AbsInt(tin.freq_bins[j] - t)
    /\ \A j \in 0..(tin.n - 1) :
          AbsInt(tin.freq_bins[j] - t) = AbsInt(tin.freq_bins[k] - t) => k <= j

\* Harmonic h is reached: no harmonic up to h exceeds Nyquist.
Reached(h) ==
    /\ h \in 1..tin.max_harmonics
    /\ \A g \in 1..h : g * tin.fundamental_hz <= Nyquist

\* C24: the harmonic mask holds exactly the bins within bin_window bins of
\* the bin nearest to n f0, for n = 1, 2, ... up to max_harmonics and up to
\* the first n with n f0 above Nyquist; it is not empty when f0 <= Nyquist
\* and max_harmonics >= 1.
C24_HarmonicMaskIsTheWindows ==
    (tpc = "done" /\ tin.op = "harmonic_bins") =>
        /\ DOMAIN tout.value = 0..(tin.n - 1)
        /\ \A b \in 0..(tin.n - 1) :
              tout.value[b] <=>
                  \E h \in 1..tin.max_harmonics, k \in 0..(tin.n - 1) :
                      /\ Reached(h)
                      /\ IsNearestBin(k, h * tin.fundamental_hz)
                      /\ AbsInt(b - k) <= tin.bin_window
        /\ (tin.fundamental_hz <= Nyquist /\ tin.max_harmonics >= 1) =>
              \E b \in 0..(tin.n - 1) : tout.value[b]

\* f0 = 170 Hz on bins 0, 100, ..., 500 with a window of 1 and 3 harmonics:
\* bins 1..3 around 170, bins 2..4 around 340, and 510 is above Nyquist.
C24_Witness ==
    /\ tpc = "done" /\ tin.op = "harmonic_bins"
    /\ tin.fundamental_hz = 170 /\ tin.n = 6 /\ tin.bin_window = 1 /\ tin.max_harmonics = 3
    /\ tout.value = [b \in 0..5 |-> b \in 1..4]

\* A tie (150 Hz is midway between bins 1 and 2) and a window clamped at
\* both ends of the bin range.
C24_WitnessClamped ==
    /\ tpc = "done" /\ tin.op = "harmonic_bins"
    /\ tin.fundamental_hz = 150 /\ tin.n = 4 /\ tin.bin_window = 2 /\ tin.max_harmonics = 2
    /\ tout.value = [b \in 0..3 |-> TRUE]

\* ------------------------------------------------------------------------
\* The wrapper's two slots (Spec)
\* ------------------------------------------------------------------------
Refusal == "ValueError: Sound requires at least one of audio or spectral"

\* Every instance has a slot filled, and a construction fails exactly when
\* it was given neither value, leaving no instance.
SlotsFilled ==
    /\ \A i \in Instances : sounds[i]._audio # None \/ sounds[i]._spectral # None
    /\ last.op = "__init__" =>
          /\ (last.before._audio = None /\ last.before._spectral = None)
                 <=> last.error = Refusal
          /\ last.error = Refusal => last.result = 0
          /\ last.error # Refusal =>
                 /\ last.error = ""
                 /\ last.result = Len(sounds)
                 /\ sounds[last.result] = last.before

\* No step removes an instance, and no step empties or changes a filled slot.
SlotsKept ==
    /\ Len(sounds') >= Len(sounds)
    /\ \A i \in 1..Len(sounds) :
          /\ sounds[i]._audio # None => sounds'[i]._audio = sounds[i]._audio
          /\ sounds[i]._spectral # None => sounds'[i]._spectral = sounds[i]._spectral

\* C25: every wrapper instance has at least one of its two slots filled in
\* every reachable state; construction with neither value fails with an
\* error; and no later access or operator call clears a filled slot or
\* replaces its value.
C25_SlotsFilledAndKept == []SlotsFilled /\ [][SlotsKept]_vars

\* Reading audio filled the empty slot of a wrapper built from a spectral
\* frame, and the spectral slot is as it was.
C25_Witness ==
    /\ last.op = "audio"
    /\ last.before._audio = None
    /\ sounds[last.recv]._audio = compute_istft(last.before._spectral)
    /\ sounds[last.recv]._spectral = last.before._spectral
    /\ sounds[last.recv]._spectral # None

\* A construction with neither value was refused after an instance was made.
C25_WitnessRefused ==
    /\ last.op = "__init__"
    /\ last.error = Refusal
    /\ Len(sounds) = 1

\* An operator was called on a wrapper built with both values.
C25_WitnessBoth ==
    /\ last.op \in Operators
    /\ last.before._audio # None
    /\ last.before._spectral # None
    /\ sounds[last.recv] = last.before

\* How a wrapper was built, read off its slots: from a time-domain signal
\* (the spectral slot empty or its memoized transform), from a spectral
\* frame, or from both.
BuiltFrom(s) ==
    IF s._audio # None /\ (s._spectral = None \/ s._spectral = compute_stft(s._audio))
    THEN "audio"
    ELSE IF s._spectral # None /\ (s._audio = None \/ s._audio = compute_istft(s._spectral))
    THEN "spectral"
    ELSE "both"

\* C26: the domain in which a domain-preserving operator runs on an instance
\* is the same at every call, whatever accessors or spectral-only operators
\* were called on it before: on a wrapper built from a time-domain signal it
\* runs in the time domain (as it does when called first), on one built from
\* a spectral frame in the spectral domain.
C26_DomainFixedPerInstance ==
    (last.op \in DomainPreserving /\ last.result # 0) =>
        /\ BuiltFrom(last.before) = "audio" =>
               /\ sounds[last.result]._audio # None
               /\ sounds[last.result]._spectral = None
        /\ BuiltFrom(last.before) = "spectral" =>
               /\ sounds[last.result]._spectral # None
               /\ sounds[last.result]._audio = None

\* ------------------------------------------------------------------------
\* The number of fundamentals (SpecDecompose)
\* ------------------------------------------------------------------------
\* The peaks find_peaks reports on the searched spectrum of this run.
CandidatePeaks ==
    CHOOSE peaks \in {find_peaks(db_search, bins(din.sd), din.prominence) :
                         db_search \in {Searched}} : TRUE

\* C27: with at least one candidate peak and max_notes >= 1 the lowest kept
\* candidate is accepted, so between 1 and max_notes fundamentals are
\* returned; none is returned only when there is no candidate peak.
C27_LowestCandidateAccepted ==
    (Detected /\ din.max_notes >= 1) =>
        \A peaks \in {CandidatePeaks} :
            /\ peaks = {} <=> fundamentals = <<>>
            /\ peaks # {} =>
                  \A cands \in {KeptCandidates} :
                      /\ Len(cands) >= 1
                      /\ fundamentals[1] = cands[1]
                      /\ \A i \in 1..Len(cands) : cands[1][1] <= cands[i][1]
                      /\ Len(fundamentals) >= 1
                      /\ Len(fundamentals) <= din.max_notes

\* Three peaks, one kept: the sieve was given one candidate and accepted it.
C27_Witness ==
    /\ Detected
    /\ din.max_notes = 1
    /\ Cardinality(CandidatePeaks) >= 2
    /\ Len(fundamentals) = 1

\* Two candidates kept and the lower one alone accepted.
C27_WitnessSieved ==
    /\ Detected
    /\ din.max_notes = 2
    /\ Len(KeptCandidates) = 2
    /\ fundamentals = <<KeptCandidates[1]>>

\* ------------------------------------------------------------------------
\* The dual-format commands (SpecCli)
\* ------------------------------------------------------------------------
\* C28: in the dual-format commands, for every combination of input and
\* output format the spectral writer is handed a spectral frame and the
\* audio writer a time-domain signal; the formats are resolved once, to
\* audio or spectral, and the buffered stream handed to the reader holds
\* exactly the bytes of the original stream.
C28_WritersGetTheirKind ==
    (tpc \notin {"call"} /\ tin.op = "command") =>
        /\ tout.fmt_in \in {"audio", "spectral"}
        /\ tout.fmt_out \in {"audio", "spectral"}
        /\ tout.sniffed <= 1
        /\ tout.piped => tout.buffered = tin.stdin
        /\ tout.writer = "spectral" => tout.handed = "SpectralData"
        /\ tout.writer = "audio" => tout.handed = "AudioData"

\* ------------------------------------------------------------------------
\* C29: every frame an operator returns for a frame whose original_frames is
\* not negative has an original_frames that is not negative, whatever numbers
\* the operator is given and whichever entry point is used.
\* ------------------------------------------------------------------------
C29_OriginalFramesNeverNegative ==
    (tpc = "done" /\ tin.op \in {"gain", "gate", "filter", "denoise", "transpose", "stretch",
                                 "morph", "trim", "loop"}
                 /\ tout.kind = "SpectralData" /\ tin.sd.original_frames >= 0) =>
        tout.sd.original_frames >= 0

\* ------------------------------------------------------------------------
\* C30: the level measurement returns for every window and hop, zero and
\* negative ones included, the hop being at least one sample; it returns
\* ceil(total / hop_frames) rows, whose times start at 0 and strictly
\* increase and whose levels are all at least -96 dB.
\* ------------------------------------------------------------------------
CeilDiv(a, b) == (a + b - 1) \div b

\* time t is before time u
Earlier(t, u) == t[1] * u[2] < u[1] * t[2]

RowsInOrder(rows) ==
    /\ Len(rows) > 0 => rows[1][1][1] = 0
    /\ \A k \in 1..(Len(rows) - 1) : Earlier(rows[k][1], rows[k + 1][1])
    /\ \A k \in 1..Len(rows) : rows[k][2] >= -96 /\ rows[k][3] >= -96

Measured ==
    /\ tpc \in {"loop", "done"} =>
         /\ tout.hop_frames >= 1
         /\ RowsInOrder(tout.rows)
    /\ tpc = "done" => Len(tout.rows) = CeilDiv(tout.total, tout.hop_frames)

C30_RmsTrackTerminatesWithOrderedRows == []Measured /\ <>(tpc = "done")

\* A hop of zero seconds on five samples gave five rows, the first of them
\* at the silence floor for a signal that is not silent.
C30_Witness ==
    /\ tpc = "done"
    /\ tin.has_hop /\ tin.hop = <<0, 1>>
    /\ Len(tout.rows) = 5
    /\ MonoSum(tin.audio.samples, 0) # 0
    /\ tout.rows[1][2] = -96

\* A negative window and no hop on a signal above the floor.
C30_WitnessNegative ==
    /\ tpc = "done"
    /\ ~tin.has_hop /\ tin.window = <<-1, 1>>
    /\ Len(tout.rows) = 3
    /\ tout.rows[3][3] > -96

\* A hop of two samples on five gave three rows.
C30_WitnessCeil ==
    /\ tpc = "done"
    /\ tout.hop_frames = 2 /\ tout.total = 5
    /\ Len(tout.rows) = 3
====
